---- MODULE Spec2Model ----
(***************************************************************************)
(* The media catalog of skibidi67: the dedup decision of an upload, the    *)
(* delete handler, the flag updates and the rebuild of the catalog from    *)
(* the metadata files, as they are written in src/routes/media.rs,         *)
(* src/routes/videos.rs, src/routes/ui.rs and src/state.rs.                *)
(*                                                                         *)
(* Every request handler is a process; every access to a shared map        *)
(* (DashMap) or to the upload directory is one step, so that the handlers  *)
(* of concurrent requests interleave between any two accesses, as they do  *)
(* on the multi-threaded runtime.                                          *)
(***************************************************************************)
EXTENDS Integers, FiniteSets, Sequences, TLC

----------------------------------------------------------------------------
(* Bounds of the model *)

\* request handlers that may be in flight at once
NumProcs == 2
\* ids Uuid::new_v4 hands out over a run
MaxItems == 3
\* distinct byte buffers a client may upload
NumPayloads == 3
\* requests (and restarts) over a run of concurrent handlers
MaxRequests == 4
\* requests (and restarts) over a run that handles one request at a time
MaxSeqRequests == 5
\* writes and renames the file system may fail over a run
MaxFaults == 1
\* principals that send requests
NumUsers == 2
\* upload sessions init hands out over a run
MaxSessions == 3
\* distinct chunk bodies a client may send
NumChunkValues == 2
\* the highest chunk index a client may write
MaxChunkIndex == 2
\* requests over a run of chunked uploads
MaxChunkRequests == 3
\* requests over a run of chunked uploads that are sent one at a time
MaxSeqChunkRequests == 4
\* the size cap of an assembled upload (100 MiB in the code), in the unit the
\* chunk bodies are measured in
MaxTotalSize == 3
\* the hours the clock may reach
MaxClock == 2
\* requests over a run of uploads, flag updates and deletes by any principal
MaxAuthRequests == 3
\* requests over a run of uploads followed stage by stage
MaxStagedRequests == 3

Procs == 1 .. NumProcs
Ids == 1 .. MaxItems
Payloads == 1 .. NumPayloads
Users == 1 .. NumUsers
UploadIds == 1 .. MaxSessions
ChunkValues == 1 .. NumChunkValues
ChunkIndices == 0 .. MaxChunkIndex
Times == 0 .. MaxClock

----------------------------------------------------------------------------
(* Values *)

\* Option::None of an id (references_id, a response without an id)
NoId == 0
\* Option::None of tlsh_hash
NoTlsh == -1
\* the empty filename, String::default()
NoFilename == << >>

\* The declared type of a buffer: the last buffer is plain text, the others
\* are mp4 video.
MimeOf(b) == IF b = NumPayloads THEN "text/plain" ELSE "video/mp4"

is_video_mime(mime) == mime \in { "video/mp4", "video/webm" }

extension_for_mime(mime) ==
    CASE mime = "video/mp4" -> ".mp4"
      [] mime = "video/webm" -> ".webm"
      [] mime = "text/plain" -> ".txt"
      [] OTHER -> ".bin"

\* Sha256::digest(&bytes): distinct buffers have distinct digests.
Sha256(b) == 100 + b

\* TlshDefaultBuilder::build_from(&bytes), computed for video only. The video
\* buffers lie on a line, 60 apart: neighbours are near-duplicates, buffers two
\* apart are not.
TlshSpacing == 60
TlshDigest(b) == TlshSpacing * (b - 1)
TlshOf(b) == IF is_video_mime(MimeOf(b)) THEN TlshDigest(b) ELSE NoTlsh

\* A fuzzy digest for every upload, whatever its type.
compute_tlsh_always(mime, via) == TRUE

\* let compute_tlsh = is_video_mime(&base_mime) (media.rs); videos.rs always
\* builds the fuzzy digest
compute_tlsh(mime, via) == via = "videos" \/ is_video_mime(mime)

\* let tlsh_hex = if compute_tlsh { build_from(&bytes) } else { None }
tlsh_hex(b, mime, via) == IF compute_tlsh(mime, via) THEN TlshDigest(b) ELSE NoTlsh

\* existing.diff(&new_tlsh, true)
TlshDiff(t1, t2) == IF t1 >= t2 THEN t1 - t2 ELSE t2 - t1

\* distance < 100
TlshThreshold == 100

\* chrono::Duration::hours(1), the age after which a session is stale
StaleAfter == 1

\* format!("{}{}", video_id, ext)
FinalFilename(id, ext) == << id, ext >>

VideoMeta(id, filename, mime, sha, tlsh, by, nsfw, cd, ref) ==
    [ id |-> id, filename |-> filename, content_type |-> mime, sha256 |-> sha,
      tlsh_hash |-> tlsh, uploaded_by |-> by, nsfw |-> nsfw,
      comments_disabled |-> cd, references_id |-> ref ]

NoMeta == VideoMeta(NoId, NoFilename, "", 0, NoTlsh, 0, FALSE, FALSE, NoId)

\* maps with a varying domain
EmptyMap == [ x \in {} |-> 0 ]
Put(f, k, v) == [ x \in (DOMAIN f) \cup {k} |-> IF x = k THEN v ELSE f[x] ]
Drop(f, k) == [ x \in (DOMAIN f) \ {k} |-> f[x] ]

----------------------------------------------------------------------------
(* State *)

VARIABLES
    videos,        \* AppState.videos: id -> VideoMeta
    video_hashes,  \* AppState.video_hashes: sha256 -> id
    video_tlsh,    \* AppState.video_tlsh: id -> tlsh
    meta_files,    \* upload_dir/<id>.meta.json: id -> VideoMeta
    media_files,   \* upload_dir/<id><ext>: filename -> digest of its bytes
    temp_files,    \* upload_dir/tmp_<uuid><ext> of the upload a process runs
    next_uuid,     \* the next id Uuid::new_v4 returns
    pc,            \* where each handler is
    loc,           \* the locals of each handler
    resp,          \* what each handler last answered
    budget,        \* requests the run may still start, and whether the
                   \* clients send them one at a time
    faults,        \* file-system failures the run has seen
    upload_sessions, \* AppState.upload_sessions: upload id -> UploadSession
    chunk_dirs,    \* upload_dir/tmp_chunks_<upload id>/<index>: id -> index -> body
    next_upload_id, \* the next upload id Uuid::new_v4 returns
    sloc,          \* the locals of each handler of a chunked upload
    now            \* chrono::Utc::now() as init_upload last read it, in hours

vars == << videos, video_hashes, video_tlsh, meta_files, media_files,
           temp_files, next_uuid, pc, loc, resp, budget, faults,
           upload_sessions, chunk_dirs, next_upload_id, sloc, now >>

mem == << videos, video_hashes, video_tlsh >>
disk == << meta_files, media_files, temp_files >>

NoLoc == [ op |-> "none", via |-> "none", user |-> 0, declared |-> "",
           base_mime |-> "", format |-> "", complete |-> TRUE,
           launches |-> 0, transcoded |-> FALSE,
           payload |-> 0, sha |-> 0,
           tlsh |-> NoTlsh, original |-> NoId, original_filename |-> NoFilename,
           meta |-> NoMeta ]

NoResp == [ kind |-> "none", id |-> NoId ]

\* the chunked uploads: the session store, the chunk directories, the locals
\* of their handlers and the clock they read
chunked == << upload_sessions, chunk_dirs, next_upload_id, sloc, now >>

UploadSession(user, mime, created_at, count) ==
    [ user |-> user, content_type |-> mime, created_at |-> created_at,
      chunk_count |-> count ]

NoSession == UploadSession(0, "", 0, 0)

NoSloc == [ upload_id |-> NoId, user |-> 0, index |-> 0, data |-> 0,
            via |-> "none", complete |-> TRUE,
            session |-> NoSession, i |-> 0, out |-> << >> ]

Start(requests, serial) ==
    /\ budget = [ left |-> requests, serial |-> serial ]
    /\ faults = 0
    /\ videos = EmptyMap
    /\ video_hashes = EmptyMap
    /\ video_tlsh = EmptyMap
    /\ meta_files = EmptyMap
    /\ media_files = EmptyMap
    /\ temp_files = {}
    /\ next_uuid = 1
    /\ pc = [ p \in Procs |-> "idle" ]
    /\ loc = [ p \in Procs |-> NoLoc ]
    /\ resp = [ p \in Procs |-> NoResp ]
    /\ upload_sessions = EmptyMap
    /\ chunk_dirs = EmptyMap
    /\ next_upload_id = 1
    /\ sloc = [ p \in Procs |-> NoSloc ]
    /\ now = 0

Init == Start(MaxRequests, FALSE)

SeqInit == Start(MaxSeqRequests, TRUE)

ChunkedInit == Start(MaxChunkRequests, FALSE)

SeqChunkedInit == Start(MaxSeqChunkRequests, TRUE)

AuthInit == Start(MaxAuthRequests, FALSE)

StagedInit == Start(MaxStagedRequests, FALSE)

----------------------------------------------------------------------------
(* Upload: handle_upload / upload_video, then process_uploaded_file *)

Idle(p) == pc[p] = "idle"

\* Uploads that have not yet drawn their id from Uuid::new_v4.
AwaitingUuid ==
    { q \in Procs : pc[q] \in { "u_size", "u_magic", "u_transcode",
                                "u_transcode_failed", "u_replace", "u_fingerprint",
                                "u_exact", "u_fuzzy", "u_link_rm", "u_link_get",
                                "u_link_insert", "u_new_rename",
                                "c_create", "c_loop", "c_process" } }

\* A handler that takes its guard on the exact-hash index before it reads
\* the temp file for the digests and keeps it to the end of the branch.
guards_from_fingerprint(p) ==
    IF pc[p] \in { "u_fingerprint", "u_exact", "u_dup_remove" }
    THEN { << "video_hashes", Sha256(loc[p].payload) >> }
    ELSE {}

\* The map guards a handler holds between two of its steps.
\* `if let Some(existing_id) = state.video_hashes.get(&sha256_hex)` of the
\* exact-duplicate branch keeps its read guard on the entry until the branch
\* returns, across the await of remove_file; every other guard is dropped
\* within the step that takes it.
guards(p) ==
    IF pc[p] = "u_dup_remove" THEN { << "video_hashes", loc[p].sha >> } ELSE {}

\* An insert or remove of a key waits for the guards other handlers hold on
\* it.
HashGuardFree(p, d) ==
    \A q \in Procs \ {p} : << "video_hashes", d >> \notin guards(q)

\* AppState::find_similar_tlsh: the keys of video_tlsh whose digest is within
\* the threshold of the new one; the function returns the first one its
\* iteration meets, which may be any of them.
SimilarTlsh(tlsh_map, new_tlsh) ==
    { k \in DOMAIN tlsh_map : TlshDiff(tlsh_map[k], new_tlsh) < TlshThreshold }

\* A scan of the catalog instead of the fuzzy-hash index: referencing items,
\* which carry a fuzzy digest too, would be matched.
find_similar_tlsh_in_catalog(new_tlsh) ==
    { k \in DOMAIN videos : /\ videos[k].tlsh_hash # NoTlsh
                            /\ TlshDiff(videos[k].tlsh_hash, new_tlsh) < TlshThreshold }

find_similar_tlsh(new_tlsh) == SimilarTlsh(video_tlsh, new_tlsh)

\* AppState::persist_video: writes <id>.meta.json; a failed write is logged and
\* nothing else.
persist_video(meta, written) ==
    IF written THEN Put(meta_files, meta.id, meta) ELSE meta_files

\* The file system fails a write or a rename, at most MaxFaults times.
Fault == faults < MaxFaults /\ faults' = faults + 1

Persist(meta) ==
    \/ meta_files' = persist_video(meta, TRUE) /\ UNCHANGED faults
    \/ meta_files' = persist_video(meta, FALSE) /\ Fault

\* The request is received into its temp file, validated and fingerprinted:
\* all of it on the handler's own temp file.
\* Video is uploaded through routes/videos.rs, every other type through
\* media::handle_upload.
HandlerOf(mime) == IF is_video_mime(mime) THEN "videos" ELSE "media"

\* A request is accepted: the run has budget left, and clients that send one
\* request at a time wait for the answer to the last one.
Accept ==
    /\ budget.left > 0
    /\ budget.serial => \A q \in Procs : Idle(q)
    /\ budget' = [ budget EXCEPT !.left = @ - 1 ]

UploadBeginBy(p, b, user) ==
    /\ Idle(p)
    /\ Accept
    /\ next_uuid + Cardinality(AwaitingUuid) <= MaxItems
    /\ temp_files' = temp_files \cup {p}
    /\ loc' = [ loc EXCEPT ![p] = [ NoLoc EXCEPT !.op = "upload", !.via = HandlerOf(MimeOf(b)),
                                    !.user = user, !.declared = MimeOf(b),
                                    !.base_mime = MimeOf(b),
                                    !.payload = b, !.sha = Sha256(b),
                                    !.tlsh = tlsh_hex(b, MimeOf(b), HandlerOf(MimeOf(b))) ] ]
    /\ pc' = [ pc EXCEPT ![p] = "u_exact" ]
    /\ resp' = [ resp EXCEPT ![p] = NoResp ]
    /\ UNCHANGED << mem, meta_files, media_files, next_uuid >>
    /\ UNCHANGED faults
    /\ UNCHANGED chunked

\* The dedup decision does not read the principal: where who uploaded does not
\* matter, every single-shot upload is sent by the first principal.
UploadBegin(p, b) == UploadBeginBy(p, b, 1)

\* What the bytes of a body are: an ISO media file ("ftyp" at offset 4), a
\* Matroska file (the EBML signature), text that is UTF-8 throughout, such
\* text with a two-byte character across the end of the magic prefix, such
\* text shorter than the validator accepts, text that is UTF-8 over the
\* magic prefix and not after, anything else.
Formats == { "ftyp", "ebml", "utf8", "utf8_straddle", "utf8_short",
             "utf8_head", "other" }

\* const MAGIC_READ_BYTES: usize = 256, scaled down
MagicReadBytes == 4

\* if bytes.len() < 4 { return false }
MinMagicLen == 4

\* Bytes by their role in UTF-8: "a" a one-byte character, "L" the lead byte
\* of a two-byte character, "c" a continuation byte, "x" a byte that occurs
\* in no UTF-8 text.
Ascii(n) == [ i \in 1 .. n |-> "a" ]

\* the bytes of a body of each kind
BytesOfFormat(format) ==
    CASE format = "utf8" -> Ascii(MagicReadBytes) \o << "L", "c" >>
      [] format = "utf8_straddle" -> Ascii(MagicReadBytes - 1) \o << "L", "c" >>
      [] format = "utf8_short" -> Ascii(MinMagicLen - 1)
      [] format = "utf8_head" -> Ascii(MagicReadBytes) \o << "x" >>
      [] OTHER -> << "x" >> \o Ascii(MagicReadBytes)

\* std::str::from_utf8(bytes).is_ok()
RECURSIVE from_utf8_is_ok(_)
from_utf8_is_ok(bytes) ==
    IF bytes = << >> THEN TRUE
    ELSE IF Head(bytes) = "a" THEN from_utf8_is_ok(Tail(bytes))
    ELSE IF Head(bytes) = "L" /\ Len(bytes) >= 2 /\ bytes[2] = "c"
      THEN from_utf8_is_ok(Tail(Tail(bytes)))
    ELSE FALSE

\* read_magic_bytes: the first MAGIC_READ_BYTES bytes of the file
read_magic_bytes(bytes) ==
    SubSeq(bytes, 1, IF Len(bytes) < MagicReadBytes THEN Len(bytes) ELSE MagicReadBytes)

\* verify_magic_bytes(&magic_bytes, "text/plain") of media.rs, then
\* from_utf8 of the whole file
verify_text(bytes) ==
    /\ Len(read_magic_bytes(bytes)) >= MinMagicLen
    /\ from_utf8_is_ok(read_magic_bytes(bytes))
    /\ from_utf8_is_ok(bytes)

VideoPayloads == { b \in Payloads : is_video_mime(MimeOf(b)) }
TextPayloads == Payloads \ VideoPayloads

\* The bodies a client sends. The bytes of a body that is stored are a payload;
\* a body that is never stored as sent carries none.
Bodies ==
    [ format : { "ftyp" }, payload : VideoPayloads ]
        \cup [ format : { "utf8" }, payload : TextPayloads ]
        \cup [ format : { "utf8_straddle" }, payload : TextPayloads ]
        \cup [ format : { "ebml", "utf8_short", "utf8_head", "other" }, payload : { 0 } ]

\* The allow-listed types the uploads declare: of ALLOWED_CONTENT_TYPES the
\* type that is stored as sent and one that is transcoded, and
\* ALLOWED_TEXT_TYPES.
DeclaredTypes == { "video/mp4", "video/webm", "text/plain" }

\* A validator that accepts every body.
verify_magic_any(format, mime, via) == TRUE

\* verify_magic_bytes of videos.rs, which knows the video types only, and of
\* media.rs followed by the UTF-8 check of the whole file for text
verify_magic(format, mime, via) ==
    CASE mime = "video/mp4" -> format = "ftyp"
      [] mime = "video/webm" -> format = "ebml"
      [] mime = "text/plain" /\ via = "media" -> verify_text(BytesOfFormat(format))
      [] OTHER -> FALSE

\* Every upload is transcoded, whatever its type.
needs_transcode_always(mime, via) == TRUE

\* if base_mime != "video/mp4" (videos.rs);
\* if is_video_mime(base_mime_in) && base_mime != "video/mp4" (media.rs)
needs_transcode(mime, via) ==
    IF via = "videos" THEN mime # "video/mp4"
    ELSE is_video_mime(mime) /\ mime # "video/mp4"

\* upload_dir/tmp_<uuid>.mp4, the output file of ffmpeg, kept among the temp
\* files under a name of its own
ConvertedOf(p) == p + NumProcs

ErrorResp == [ kind |-> "error", id |-> NoId ]

\* upload_video / handle_upload after the title and the allow-list:
\* data.open(100.mebibytes()).into_file(&temp_path)
ReceiveBegin(p, body, mime, complete) ==
    /\ Idle(p)
    /\ Accept
    /\ next_uuid + Cardinality(AwaitingUuid) <= MaxItems
    /\ temp_files' = temp_files \cup {p}
    /\ loc' = [ loc EXCEPT ![p] = [ NoLoc EXCEPT !.op = "upload", !.via = HandlerOf(mime),
                                    !.user = 1, !.declared = mime,
                                    !.base_mime = mime,
                                    !.format = body.format, !.complete = complete,
                                    !.payload = body.payload ] ]
    /\ pc' = [ pc EXCEPT ![p] = "u_size" ]
    /\ resp' = [ resp EXCEPT ![p] = NoResp ]
    /\ UNCHANGED << mem, meta_files, media_files, next_uuid >>
    /\ UNCHANGED faults
    /\ UNCHANGED chunked

\* if !written.is_complete() { remove_file(&temp_path); return Err(FileTooLarge) }
UploadSizeCheck(p) ==
    /\ pc[p] = "u_size"
    /\ IF loc[p].complete
         THEN /\ pc' = [ pc EXCEPT ![p] = "u_magic" ]
              /\ UNCHANGED << temp_files, resp, loc >>
         ELSE /\ temp_files' = temp_files \ {p}
              /\ resp' = [ resp EXCEPT ![p] = [ kind |-> "too_large", id |-> NoId ] ]
              /\ pc' = [ pc EXCEPT ![p] = "idle" ]
              /\ loc' = [ loc EXCEPT ![p] = NoLoc ]
    /\ UNCHANGED << mem, meta_files, media_files, next_uuid >>
    /\ UNCHANGED << budget, faults >>
    /\ UNCHANGED chunked

\* The bytes are read and verified. A read that fails removes the temp file
\* in videos.rs, where it is an Err of the blocking task, and leaves it in
\* media.rs, where it is returned with `?`.
UploadVerifyMagic(p) ==
    /\ pc[p] = "u_magic"
    /\ \/ /\ IF verify_magic(loc[p].format, loc[p].base_mime, loc[p].via)
               THEN /\ pc' = [ pc EXCEPT ![p] =
                                 IF needs_transcode(loc[p].base_mime, loc[p].via)
                                 THEN "u_transcode" ELSE "u_fingerprint" ]
                    /\ UNCHANGED << temp_files, resp, loc >>
               ELSE /\ temp_files' = temp_files \ {p}
                    /\ resp' = [ resp EXCEPT ![p] = [ kind |-> "magic", id |-> NoId ] ]
                    /\ pc' = [ pc EXCEPT ![p] = "idle" ]
                    /\ loc' = [ loc EXCEPT ![p] = NoLoc ]
          /\ UNCHANGED faults
       \/ /\ Fault
          /\ temp_files' = IF loc[p].via = "videos" THEN temp_files \ {p} ELSE temp_files
          /\ resp' = [ resp EXCEPT ![p] = ErrorResp ]
          /\ pc' = [ pc EXCEPT ![p] = "idle" ]
          /\ loc' = [ loc EXCEPT ![p] = NoLoc ]
    /\ UNCHANGED << mem, meta_files, media_files, next_uuid >>
    /\ UNCHANGED budget
    /\ UNCHANGED chunked

\* Command::new("ffmpeg") ... .status().await.map_err(..)?: the process cannot
\* be launched, or exits with a failure having written some or none of its
\* output, or succeeds; its output is some MP4 file.
UploadTranscode(p) ==
    /\ pc[p] = "u_transcode"
    /\ \/ /\ resp' = [ resp EXCEPT ![p] = ErrorResp ]
          /\ pc' = [ pc EXCEPT ![p] = "idle" ]
          /\ loc' = [ loc EXCEPT ![p] = NoLoc ]
          /\ UNCHANGED temp_files
       \/ /\ \E partial \in BOOLEAN :
                temp_files' = IF partial THEN temp_files \cup { ConvertedOf(p) }
                              ELSE temp_files
          /\ pc' = [ pc EXCEPT ![p] = "u_transcode_failed" ]
          /\ loc' = [ loc EXCEPT ![p].launches = @ + 1 ]
          /\ UNCHANGED resp
       \/ /\ \E out \in VideoPayloads :
                loc' = [ loc EXCEPT ![p].payload = out, ![p].format = "ftyp",
                                    ![p].launches = @ + 1 ]
          /\ temp_files' = temp_files \cup { ConvertedOf(p) }
          /\ pc' = [ pc EXCEPT ![p] = "u_replace" ]
          /\ UNCHANGED resp
    /\ UNCHANGED << mem, meta_files, media_files, next_uuid >>
    /\ UNCHANGED << budget, faults >>
    /\ UNCHANGED chunked

\* if !status.success() { remove_file(&temp_path); remove_file(&converted_path);
\*                        return Err(Internal) }
UploadTranscodeFailed(p) ==
    /\ pc[p] = "u_transcode_failed"
    /\ temp_files' = temp_files \ { p, ConvertedOf(p) }
    /\ resp' = [ resp EXCEPT ![p] = ErrorResp ]
    /\ pc' = [ pc EXCEPT ![p] = "idle" ]
    /\ loc' = [ loc EXCEPT ![p] = NoLoc ]
    /\ UNCHANGED << mem, meta_files, media_files, next_uuid >>
    /\ UNCHANGED << budget, faults >>
    /\ UNCHANGED chunked

\* remove_file(&temp_path); fs::rename(&converted_path, &temp_path).await?;
\* base_mime = "video/mp4"
UploadReplaceTemp(p) ==
    /\ pc[p] = "u_replace"
    /\ \/ /\ temp_files' = (temp_files \ { ConvertedOf(p) }) \cup {p}
          /\ loc' = [ loc EXCEPT ![p].base_mime = "video/mp4", ![p].transcoded = TRUE ]
          /\ pc' = [ pc EXCEPT ![p] = "u_fingerprint" ]
          /\ UNCHANGED << resp, faults >>
       \/ /\ Fault
          /\ temp_files' = temp_files \ {p}
          /\ resp' = [ resp EXCEPT ![p] = ErrorResp ]
          /\ pc' = [ pc EXCEPT ![p] = "idle" ]
          /\ loc' = [ loc EXCEPT ![p] = NoLoc ]
    /\ UNCHANGED << mem, meta_files, media_files, next_uuid >>
    /\ UNCHANGED budget
    /\ UNCHANGED chunked

\* A fingerprinting step that registers the digest in the exact-hash index
\* as soon as it is computed.
UploadFingerprint_indexes(p) ==
    /\ pc[p] = "u_fingerprint"
    /\ loc' = [ loc EXCEPT ![p].sha = Sha256(loc[p].payload),
                            ![p].tlsh =
                                tlsh_hex(loc[p].payload, loc[p].base_mime, loc[p].via) ]
    /\ video_hashes' = Put(video_hashes, Sha256(loc[p].payload), NoId)
    /\ pc' = [ pc EXCEPT ![p] = "u_exact" ]
    /\ UNCHANGED << videos, video_tlsh, disk, next_uuid, resp >>
    /\ UNCHANGED << budget, faults >>
    /\ UNCHANGED chunked

\* The blocking task that reads the temp file and computes the digests; a
\* read that fails removes the temp file.
UploadFingerprint(p) ==
    /\ pc[p] = "u_fingerprint"
    /\ \/ /\ loc' = [ loc EXCEPT ![p].sha = Sha256(loc[p].payload),
                                  ![p].tlsh =
                                tlsh_hex(loc[p].payload, loc[p].base_mime, loc[p].via) ]
          /\ pc' = [ pc EXCEPT ![p] = "u_exact" ]
          /\ UNCHANGED << temp_files, resp, faults >>
       \/ /\ Fault
          /\ temp_files' = temp_files \ {p}
          /\ resp' = [ resp EXCEPT ![p] = ErrorResp ]
          /\ pc' = [ pc EXCEPT ![p] = "idle" ]
          /\ loc' = [ loc EXCEPT ![p] = NoLoc ]
    /\ UNCHANGED << mem, meta_files, media_files, next_uuid >>
    /\ UNCHANGED budget
    /\ UNCHANGED chunked

\* the steps of an upload from its temp file to the dedup decision
StageStep(p) ==
    \/ UploadSizeCheck(p)
    \/ UploadVerifyMagic(p)
    \/ UploadTranscode(p)
    \/ UploadTranscodeFailed(p)
    \/ UploadReplaceTemp(p)
    \/ UploadFingerprint(p)

\* The exact check left out: every upload goes on to the fuzzy check.
UploadCheckExact_skipped(p) ==
    /\ pc[p] = "u_exact"
    /\ pc' = [ pc EXCEPT ![p] = "u_fuzzy" ]
    /\ UNCHANGED << mem, disk, next_uuid, loc, resp, budget, faults >>
    /\ UNCHANGED chunked

\* if let Some(existing_id) = state.video_hashes.get(&sha256_hex)
UploadCheckExact(p) ==
    /\ pc[p] = "u_exact"
    /\ IF loc[p].sha \in DOMAIN video_hashes
         THEN /\ loc' = [ loc EXCEPT ![p].original = video_hashes[loc[p].sha] ]
              /\ pc' = [ pc EXCEPT ![p] = "u_dup_remove" ]
         ELSE /\ pc' = [ pc EXCEPT ![p] = "u_fuzzy" ]
              /\ UNCHANGED loc
    /\ UNCHANGED << mem, disk, next_uuid, resp >>
    /\ UNCHANGED << budget, faults >>
    /\ UNCHANGED chunked

\* remove_file(&temp_path); return Err(DuplicateVideo(existing_id))
UploadDupRemove(p) ==
    /\ pc[p] = "u_dup_remove"
    /\ temp_files' = temp_files \ {p}
    /\ resp' = [ resp EXCEPT ![p] = [ kind |-> "dup", id |-> loc[p].original ] ]
    /\ pc' = [ pc EXCEPT ![p] = "idle" ]
    /\ loc' = [ loc EXCEPT ![p] = NoLoc ]
    /\ UNCHANGED << mem, meta_files, media_files, next_uuid >>
    /\ UNCHANGED << budget, faults >>
    /\ UNCHANGED chunked

\* if let Some(ref new_tlsh_hex) = tlsh_hex
\*     && let Some(original_id) = state.find_similar_tlsh(new_tlsh_hex)
UploadFindSimilar(p) ==
    /\ pc[p] = "u_fuzzy"
    /\ \/ /\ loc[p].tlsh # NoTlsh
          /\ \E o \in find_similar_tlsh(loc[p].tlsh) :
                loc' = [ loc EXCEPT ![p].original = o ]
          /\ pc' = [ pc EXCEPT ![p] = "u_link_rm" ]
       \/ /\ loc[p].tlsh = NoTlsh \/ find_similar_tlsh(loc[p].tlsh) = {}
          /\ pc' = [ pc EXCEPT ![p] = "u_new_rename" ]
          /\ UNCHANGED loc
    /\ UNCHANGED << mem, disk, next_uuid, resp >>
    /\ UNCHANGED << budget, faults >>
    /\ UNCHANGED chunked

\* the fuzzy branch: remove_file(&temp_path)
UploadLinkRemoveTemp(p) ==
    /\ pc[p] = "u_link_rm"
    /\ temp_files' = temp_files \ {p}
    /\ pc' = [ pc EXCEPT ![p] = "u_link_get" ]
    /\ UNCHANGED << mem, meta_files, media_files, next_uuid, loc, resp >>
    /\ UNCHANGED << budget, faults >>
    /\ UNCHANGED chunked

\* state.videos.get(&original_id).map(|v| v.filename.clone()).unwrap_or_default()
OriginalFilename(original_id) ==
    IF original_id \in DOMAIN videos THEN videos[original_id].filename
                                     ELSE NoFilename

UploadLinkGetFilename(p) ==
    /\ pc[p] = "u_link_get"
    /\ loc' = [ loc EXCEPT ![p].original_filename = OriginalFilename(loc[p].original) ]
    /\ pc' = [ pc EXCEPT ![p] = "u_link_insert" ]
    /\ UNCHANGED << mem, disk, next_uuid, resp >>
    /\ UNCHANGED << budget, faults >>
    /\ UNCHANGED chunked

\* the referencing item the fuzzy branch builds
LinkedMeta(id, l) ==
    VideoMeta(id, l.original_filename, l.base_mime, l.sha, l.tlsh,
              l.user, FALSE, TRUE, l.original)

\* A fuzzy branch that also enters the new item in the exact-hash index.
UploadLinkInsert_indexed(p) ==
    /\ pc[p] = "u_link_insert"
    /\ LET meta == LinkedMeta(next_uuid, loc[p]) IN
         /\ videos' = Put(videos, meta.id, meta)
         /\ video_hashes' = Put(video_hashes, meta.sha256, meta.id)
         /\ loc' = [ loc EXCEPT ![p].meta = meta ]
    /\ next_uuid' = next_uuid + 1
    /\ pc' = [ pc EXCEPT ![p] = "u_link_persist" ]
    /\ UNCHANGED << video_tlsh, disk, resp >>
    /\ UNCHANGED << budget, faults >>
    /\ UNCHANGED chunked

\* state.videos.insert(video_id.clone(), meta.clone())
UploadLinkInsert(p) ==
    /\ pc[p] = "u_link_insert"
    /\ LET meta == LinkedMeta(next_uuid, loc[p]) IN
         /\ videos' = Put(videos, meta.id, meta)
         /\ loc' = [ loc EXCEPT ![p].meta = meta ]
    /\ next_uuid' = next_uuid + 1
    /\ pc' = [ pc EXCEPT ![p] = "u_link_persist" ]
    /\ UNCHANGED << video_hashes, video_tlsh, disk, resp >>
    /\ UNCHANGED << budget, faults >>
    /\ UNCHANGED chunked

\* state.persist_video(&meta); return Ok(.. "deduplicated": true ..)
UploadLinkPersist(p) ==
    /\ pc[p] = "u_link_persist"
    /\ Persist(loc[p].meta)
    /\ resp' = [ resp EXCEPT ![p] = [ kind |-> "linked", id |-> loc[p].meta.id ] ]
    /\ pc' = [ pc EXCEPT ![p] = "idle" ]
    /\ loc' = [ loc EXCEPT ![p] = NoLoc ]
    /\ UNCHANGED << mem, media_files, temp_files, next_uuid >>
    /\ UNCHANGED budget
    /\ UNCHANGED chunked

\* the owning item the new branch builds
OwningMeta(id, l) ==
    VideoMeta(id, FinalFilename(id, extension_for_mime(l.base_mime)),
              l.base_mime, l.sha, l.tlsh, l.user, FALSE, TRUE, NoId)

\* The steps of the new branch after the rename, in the order of media.rs
\* (persist, hashes, tlsh, videos) and of videos.rs (hashes, tlsh, videos,
\* persist).
AfterRename(via) == IF via = "media" THEN "u_new_persist" ELSE "u_new_hash"
AfterHash(l) == IF l.tlsh # NoTlsh THEN "u_new_tlsh" ELSE "u_new_insert"
AfterPersist(via) == IF via = "media" THEN "u_new_hash" ELSE "idle"
AfterInsert(via) == IF via = "media" THEN "idle" ELSE "u_new_persist"

NewResp(meta) == [ kind |-> "new", id |-> meta.id ]

\* fs::rename(&temp_path, &final_path).await?
UploadNewRename(p) ==
    /\ pc[p] = "u_new_rename"
    /\ \/ /\ LET meta == OwningMeta(next_uuid, loc[p]) IN
               /\ media_files' = Put(media_files, meta.filename, loc[p].sha)
               /\ loc' = [ loc EXCEPT ![p].meta = meta ]
          /\ temp_files' = temp_files \ {p}
          /\ next_uuid' = next_uuid + 1
          /\ pc' = [ pc EXCEPT ![p] = AfterRename(loc[p].via) ]
          /\ UNCHANGED << resp, faults >>
       \/ /\ Fault
          /\ resp' = [ resp EXCEPT ![p] = [ kind |-> "error", id |-> NoId ] ]
          /\ pc' = [ pc EXCEPT ![p] = "idle" ]
          /\ loc' = [ loc EXCEPT ![p] = NoLoc ]
          /\ UNCHANGED << media_files, temp_files, next_uuid >>
    /\ UNCHANGED << mem, meta_files >>
    /\ UNCHANGED budget
    /\ UNCHANGED chunked

\* state.persist_video(&meta)
UploadNewPersist(p) ==
    /\ pc[p] = "u_new_persist"
    /\ Persist(loc[p].meta)
    /\ pc' = [ pc EXCEPT ![p] = AfterPersist(loc[p].via) ]
    /\ IF AfterPersist(loc[p].via) = "idle"
         THEN /\ resp' = [ resp EXCEPT ![p] = NewResp(loc[p].meta) ]
              /\ loc' = [ loc EXCEPT ![p] = NoLoc ]
         ELSE UNCHANGED << resp, loc >>
    /\ UNCHANGED << mem, media_files, temp_files, next_uuid >>
    /\ UNCHANGED budget
    /\ UNCHANGED chunked

\* state.video_hashes.insert(sha256_hex.clone(), video_id.clone())
UploadNewHashInsert(p) ==
    /\ pc[p] = "u_new_hash"
    /\ HashGuardFree(p, loc[p].sha)
    /\ video_hashes' = Put(video_hashes, loc[p].sha, loc[p].meta.id)
    /\ pc' = [ pc EXCEPT ![p] = AfterHash(loc[p]) ]
    /\ UNCHANGED << videos, video_tlsh, disk, next_uuid, loc, resp >>
    /\ UNCHANGED << budget, faults >>
    /\ UNCHANGED chunked

\* if let Some(ref tlsh_val) = tlsh_hex { state.video_tlsh.insert(..) }
UploadNewTlshInsert(p) ==
    /\ pc[p] = "u_new_tlsh"
    /\ video_tlsh' = Put(video_tlsh, loc[p].meta.id, loc[p].tlsh)
    /\ pc' = [ pc EXCEPT ![p] = "u_new_insert" ]
    /\ UNCHANGED << videos, video_hashes, disk, next_uuid, loc, resp >>
    /\ UNCHANGED << budget, faults >>
    /\ UNCHANGED chunked

\* state.videos.insert(video_id.clone(), meta.clone())
UploadNewInsert(p) ==
    /\ pc[p] = "u_new_insert"
    /\ videos' = Put(videos, loc[p].meta.id, loc[p].meta)
    /\ pc' = [ pc EXCEPT ![p] = AfterInsert(loc[p].via) ]
    /\ IF AfterInsert(loc[p].via) = "idle"
         THEN /\ resp' = [ resp EXCEPT ![p] = NewResp(loc[p].meta) ]
              /\ loc' = [ loc EXCEPT ![p] = NoLoc ]
         ELSE UNCHANGED << resp, loc >>
    /\ UNCHANGED << video_hashes, video_tlsh, disk, next_uuid >>
    /\ UNCHANGED << budget, faults >>
    /\ UNCHANGED chunked

\* the steps of process_uploaded_file from the dedup decision on
PipelineStep(p) ==
    \/ UploadCheckExact(p)
    \/ UploadDupRemove(p)
    \/ UploadFindSimilar(p)
    \/ UploadLinkRemoveTemp(p)
    \/ UploadLinkGetFilename(p)
    \/ UploadLinkInsert(p)
    \/ UploadLinkPersist(p)
    \/ UploadNewRename(p)
    \/ UploadNewPersist(p)
    \/ UploadNewHashInsert(p)
    \/ UploadNewTlshInsert(p)
    \/ UploadNewInsert(p)

UploadStep(p) ==
    \/ \E b \in Payloads : UploadBegin(p, b)
    \/ PipelineStep(p)


----------------------------------------------------------------------------
(* Delete: handle_delete, delete_video, ui_delete_impl *)

\* The scan left out: no item is ever found to reference the deleted one.
HasReferences_never(catalog, id) == FALSE

\* state.videos.iter().any(|e| e.value().references_id.as_deref() == Some(id))
HasReferences(catalog, id) ==
    \E k \in DOMAIN catalog : catalog[k].references_id = id

\* let (_, meta) = state.videos.remove(id).ok_or(AppError::VideoNotFound)?
DeleteBegin(p, id) ==
    /\ Idle(p)
    /\ Accept
    /\ IF id \in DOMAIN videos
         THEN /\ videos' = Drop(videos, id)
              /\ loc' = [ loc EXCEPT ![p] = [ NoLoc EXCEPT !.op = "delete",
                                              !.meta = videos[id] ] ]
              /\ pc' = [ pc EXCEPT ![p] = "d_meta" ]
              /\ resp' = [ resp EXCEPT ![p] = NoResp ]
         ELSE /\ resp' = [ resp EXCEPT ![p] = [ kind |-> "notfound", id |-> id ] ]
              /\ UNCHANGED << videos, loc, pc >>
    /\ UNCHANGED << video_hashes, video_tlsh, disk, next_uuid >>
    /\ UNCHANGED faults
    /\ UNCHANGED chunked

DeletedResp(meta) == [ kind |-> "deleted", id |-> meta.id ]

\* state.delete_video_meta(id), then the scan for referencing items
\*   if meta.references_id.is_none() { let has_references = ..; if !has_references
DeleteMeta(p) ==
    /\ pc[p] = "d_meta"
    /\ meta_files' = Drop(meta_files, loc[p].meta.id)
    /\ pc' = [ pc EXCEPT ![p] = "d_scan" ]
    /\ UNCHANGED << mem, media_files, temp_files, next_uuid, loc, resp >>
    /\ UNCHANGED << budget, faults >>
    /\ UNCHANGED chunked

\* A scan that does not look at the deleted item's own reference.
DeleteScan_ignores_reference(p) ==
    /\ pc[p] = "d_scan"
    /\ IF ~ HasReferences(videos, loc[p].meta.id)
         THEN /\ pc' = [ pc EXCEPT ![p] = "d_hash" ]
              /\ UNCHANGED << loc, resp >>
         ELSE /\ pc' = [ pc EXCEPT ![p] = "idle" ]
              /\ resp' = [ resp EXCEPT ![p] = DeletedResp(loc[p].meta) ]
              /\ loc' = [ loc EXCEPT ![p] = NoLoc ]
    /\ UNCHANGED << mem, disk, next_uuid >>
    /\ UNCHANGED << budget, faults >>
    /\ UNCHANGED chunked

DeleteScan(p) ==
    /\ pc[p] = "d_scan"
    /\ IF loc[p].meta.references_id = NoId /\ ~ HasReferences(videos, loc[p].meta.id)
         THEN /\ pc' = [ pc EXCEPT ![p] = "d_hash" ]
              /\ UNCHANGED << loc, resp >>
         ELSE /\ pc' = [ pc EXCEPT ![p] = "idle" ]
              /\ resp' = [ resp EXCEPT ![p] = DeletedResp(loc[p].meta) ]
              /\ loc' = [ loc EXCEPT ![p] = NoLoc ]
    /\ UNCHANGED << mem, disk, next_uuid >>
    /\ UNCHANGED << budget, faults >>
    /\ UNCHANGED chunked

\* state.video_hashes.remove(&meta.sha256)
DeleteHash(p) ==
    /\ pc[p] = "d_hash"
    /\ HashGuardFree(p, loc[p].meta.sha256)
    /\ video_hashes' = Drop(video_hashes, loc[p].meta.sha256)
    /\ pc' = [ pc EXCEPT ![p] = "d_tlsh" ]
    /\ UNCHANGED << videos, video_tlsh, disk, next_uuid, loc, resp >>
    /\ UNCHANGED << budget, faults >>
    /\ UNCHANGED chunked

\* state.video_tlsh.remove(id)
DeleteTlsh(p) ==
    /\ pc[p] = "d_tlsh"
    /\ video_tlsh' = Drop(video_tlsh, loc[p].meta.id)
    /\ pc' = [ pc EXCEPT ![p] = "d_file" ]
    /\ UNCHANGED << videos, video_hashes, disk, next_uuid, loc, resp >>
    /\ UNCHANGED << budget, faults >>
    /\ UNCHANGED chunked

\* fs::remove_file(upload_dir.join(&meta.filename)); Ok(.. deleted ..)
DeleteFile(p) ==
    /\ pc[p] = "d_file"
    /\ media_files' = Drop(media_files, loc[p].meta.filename)
    /\ pc' = [ pc EXCEPT ![p] = "idle" ]
    /\ resp' = [ resp EXCEPT ![p] = DeletedResp(loc[p].meta) ]
    /\ loc' = [ loc EXCEPT ![p] = NoLoc ]
    /\ UNCHANGED << mem, meta_files, temp_files, next_uuid >>
    /\ UNCHANGED << budget, faults >>
    /\ UNCHANGED chunked

\* the steps of a delete after the removal of the catalog entry
DeleteTail(p) ==
    \/ DeleteMeta(p)
    \/ DeleteScan(p)
    \/ DeleteHash(p)
    \/ DeleteTlsh(p)
    \/ DeleteFile(p)

DeleteStep(p) ==
    \/ \E id \in Ids : DeleteBegin(p, id)
    \/ DeleteTail(p)

\* the principals of admin_ids
Admins == { 1 }

\* A check that takes every principal for an admin.
is_admin_anyone(user) == TRUE

\* AppState::is_admin
is_admin(user) == user \in Admins

\* DELETE by a principal: the AdminUser guard of the route, then the handler
DeleteRequest(p, id, user) ==
    \/ /\ is_admin(user)
       /\ DeleteBegin(p, id)
    \/ /\ ~ is_admin(user)
       /\ Idle(p)
       /\ Accept
       /\ resp' = [ resp EXCEPT ![p] = [ kind |-> "admin_required", id |-> id ] ]
       /\ UNCHANGED << mem, disk, next_uuid, pc, loc, faults >>
       /\ UNCHANGED chunked

----------------------------------------------------------------------------
(* Flag updates: handle_patch_nsfw, handle_patch_comments_disabled *)

Flags == { "nsfw", "comments_disabled" }

SetFlag(meta, flag, value) ==
    IF flag = "nsfw" THEN [ meta EXCEPT !.nsfw = value ]
                     ELSE [ meta EXCEPT !.comments_disabled = value ]

\* match state.videos.get_mut(id) { None => Err(VideoNotFound),
\*   Some(mut v) => { v.nsfw = body.nsfw; let updated = v.clone(); drop(v); ..
PatchBegin(p, id, flag, value) ==
    /\ Idle(p)
    /\ Accept
    /\ IF id \in DOMAIN videos
         THEN /\ videos' = [ videos EXCEPT ![id] = SetFlag(@, flag, value) ]
              /\ loc' = [ loc EXCEPT ![p] = [ NoLoc EXCEPT !.op = "patch",
                                   !.meta = SetFlag(videos[id], flag, value) ] ]
              /\ pc' = [ pc EXCEPT ![p] = "p_persist" ]
              /\ resp' = [ resp EXCEPT ![p] = NoResp ]
         ELSE /\ resp' = [ resp EXCEPT ![p] = [ kind |-> "notfound", id |-> id ] ]
              /\ UNCHANGED << videos, loc, pc >>
    /\ UNCHANGED << video_hashes, video_tlsh, disk, next_uuid >>
    /\ UNCHANGED faults
    /\ UNCHANGED chunked

\* state.persist_video(&updated); Ok(.. flag updated ..)
PatchPersist(p) ==
    /\ pc[p] = "p_persist"
    /\ Persist(loc[p].meta)
    /\ resp' = [ resp EXCEPT ![p] = [ kind |-> "patched", id |-> loc[p].meta.id ] ]
    /\ pc' = [ pc EXCEPT ![p] = "idle" ]
    /\ loc' = [ loc EXCEPT ![p] = NoLoc ]
    /\ UNCHANGED << mem, media_files, temp_files, next_uuid >>
    /\ UNCHANGED budget
    /\ UNCHANGED chunked

\* handle_patch_comments_disabled by a principal: get_mut, the owner-or-admin
\* check, the update under the entry's guard
PatchCommentsDisabled(p, id, value, user) ==
    /\ Idle(p)
    /\ Accept
    /\ IF id \notin DOMAIN videos
         THEN /\ resp' = [ resp EXCEPT ![p] = [ kind |-> "notfound", id |-> id ] ]
              /\ UNCHANGED << videos, loc, pc >>
         ELSE IF videos[id].uploaded_by # user /\ ~ is_admin(user)
           THEN /\ resp' = [ resp EXCEPT ![p] = [ kind |-> "forbidden", id |-> id ] ]
                /\ UNCHANGED << videos, loc, pc >>
           ELSE /\ videos' = [ videos EXCEPT ![id] = SetFlag(@, "comments_disabled", value) ]
                /\ loc' = [ loc EXCEPT ![p] = [ NoLoc EXCEPT !.op = "patch",
                                 !.meta = SetFlag(videos[id], "comments_disabled", value) ] ]
                /\ pc' = [ pc EXCEPT ![p] = "p_persist" ]
                /\ resp' = [ resp EXCEPT ![p] = NoResp ]
    /\ UNCHANGED << video_hashes, video_tlsh, disk, next_uuid >>
    /\ UNCHANGED faults
    /\ UNCHANGED chunked

PatchStep(p) ==
    \/ \E id \in Ids, flag \in Flags, value \in BOOLEAN : PatchBegin(p, id, flag, value)
    \/ PatchPersist(p)

----------------------------------------------------------------------------
(* Chunked uploads: init_upload, upload_chunk, complete_upload *)

\* The upload routes of a media type: /videos (routes/videos.rs) and /text
\* (routes/text.rs, through the handlers of routes/media.rs).
Routes == { "videos", "text" }

MimeTypes == { "video/mp4", "text/plain" }

\* ALLOWED_CONTENT_TYPES of the route
allowed_types(route) == IF route = "videos" THEN { "video/mp4" } ELSE { "text/plain" }

\* session.user_id != user.0.id || session.user_provider != user.0.provider
OwnedBy(session, user) == session.user = user

\* The bytes of an assembled file: the chunk bodies in sequence, read as the
\* digits of a number, so that a file of the one chunk b is the buffer b.
RECURSIVE BytesOf(_)
BytesOf(out) ==
    IF out = << >> THEN 0
    ELSE BytesOf(SubSeq(out, 1, Len(out) - 1)) * (NumChunkValues + 1) + out[Len(out)]

\* verify_magic_bytes on an assembled file: every chunk body of the model is
\* mp4 video data that starts with the mp4 header, so a file of them is mp4 and
\* is not UTF-8 text; an empty file is neither.
verify_magic_bytes(out, mime) == out # << >> /\ mime = "video/mp4"

\* A sweep that also takes the sessions that are exactly an hour old.
is_stale_inclusive(created_at, t) == created_at <= t - StaleAfter

\* created_at < cutoff, where cutoff = Utc::now() - Duration::hours(1)
is_stale(created_at, t) == created_at < t - StaleAfter

\* init_upload at time t: the type check, then the sweep of the sessions older
\* than an hour, sessions and chunk directories.
InitBegin(p, route, mime, user, t) ==
    /\ Idle(p)
    /\ Accept
    /\ IF mime \notin allowed_types(route)
         THEN /\ resp' = [ resp EXCEPT ![p] = [ kind |-> "invalid_type", id |-> NoId ] ]
              /\ UNCHANGED << upload_sessions, chunk_dirs, next_upload_id, sloc, pc, now >>
         ELSE /\ next_upload_id <= MaxSessions
              /\ t >= now
              /\ now' = t
              /\ LET stale == { k \in DOMAIN upload_sessions :
                                  is_stale(upload_sessions[k].created_at, t) }
                 IN
                 /\ upload_sessions' = [ k \in DOMAIN upload_sessions \ stale |->
                                           upload_sessions[k] ]
                 /\ chunk_dirs' = [ k \in DOMAIN chunk_dirs \ stale |-> chunk_dirs[k] ]
              /\ sloc' = [ sloc EXCEPT ![p] = [ NoSloc EXCEPT
                                !.upload_id = next_upload_id, !.user = user,
                                !.session = UploadSession(user, mime, t, 0) ] ]
              /\ next_upload_id' = next_upload_id + 1
              /\ pc' = [ pc EXCEPT ![p] = "i_create" ]
              /\ resp' = [ resp EXCEPT ![p] = NoResp ]
    /\ UNCHANGED << mem, disk, next_uuid, loc, faults >>

\* fs::create_dir_all(&chunk_dir); state.upload_sessions.insert(upload_id, ..)
InitCreate(p) ==
    /\ pc[p] = "i_create"
    /\ chunk_dirs' = Put(chunk_dirs, sloc[p].upload_id, EmptyMap)
    /\ upload_sessions' = Put(upload_sessions, sloc[p].upload_id, sloc[p].session)
    /\ resp' = [ resp EXCEPT ![p] = [ kind |-> "session", id |-> sloc[p].upload_id ] ]
    /\ pc' = [ pc EXCEPT ![p] = "idle" ]
    /\ sloc' = [ sloc EXCEPT ![p] = NoSloc ]
    /\ UNCHANGED << mem, disk, next_uuid, loc, budget, faults, next_upload_id, now >>

NotFoundResp(id) == [ kind |-> "notfound", id |-> id ]

\* An owner check that answers Forbidden where the session exists.
ChunkBegin_tells_owner(p, id, index, data, user) ==
    /\ Idle(p)
    /\ Accept
    /\ IF id \in DOMAIN upload_sessions /\ OwnedBy(upload_sessions[id], user)
         THEN /\ sloc' = [ sloc EXCEPT ![p] = [ NoSloc EXCEPT !.upload_id = id,
                                !.user = user, !.index = index, !.data = data ] ]
              /\ pc' = [ pc EXCEPT ![p] = "k_write" ]
              /\ resp' = [ resp EXCEPT ![p] = NoResp ]
         ELSE /\ resp' = [ resp EXCEPT ![p] =
                                IF id \in DOMAIN upload_sessions
                                  THEN [ kind |-> "forbidden", id |-> id ]
                                  ELSE NotFoundResp(id) ]
              /\ UNCHANGED << sloc, pc >>
    /\ UNCHANGED << mem, disk, next_uuid, loc, faults >>
    /\ UNCHANGED << upload_sessions, chunk_dirs, next_upload_id, now >>

\* upload_chunk: state.upload_sessions.get(upload_id), the owner check
ChunkBegin(p, id, index, data, user) ==
    /\ Idle(p)
    /\ Accept
    /\ IF id \in DOMAIN upload_sessions /\ OwnedBy(upload_sessions[id], user)
         THEN /\ sloc' = [ sloc EXCEPT ![p] = [ NoSloc EXCEPT !.upload_id = id,
                                !.user = user, !.index = index, !.data = data ] ]
              /\ pc' = [ pc EXCEPT ![p] = "k_write" ]
              /\ resp' = [ resp EXCEPT ![p] = NoResp ]
         ELSE /\ resp' = [ resp EXCEPT ![p] = NotFoundResp(id) ]
              /\ UNCHANGED << sloc, pc >>
    /\ UNCHANGED << mem, disk, next_uuid, loc, faults >>
    /\ UNCHANGED << upload_sessions, chunk_dirs, next_upload_id, now >>

\* The first 6 MiB of a body over the per-chunk cap: what
\* data.open(6.mebibytes()) lets through, a body of the largest size.
truncated == NumChunkValues

\* upload_chunk with a body over the per-chunk cap, through the handler of
\* the route: the same lookup and owner check
ChunkBeginOver(p, id, index, user, route) ==
    /\ Idle(p)
    /\ Accept
    /\ IF id \in DOMAIN upload_sessions /\ OwnedBy(upload_sessions[id], user)
         THEN /\ sloc' = [ sloc EXCEPT ![p] = [ NoSloc EXCEPT !.upload_id = id,
                                !.user = user, !.index = index, !.data = truncated,
                                !.via = route, !.complete = FALSE ] ]
              /\ pc' = [ pc EXCEPT ![p] = "k_write" ]
              /\ resp' = [ resp EXCEPT ![p] = NoResp ]
         ELSE /\ resp' = [ resp EXCEPT ![p] = NotFoundResp(id) ]
              /\ UNCHANGED << sloc, pc >>
    /\ UNCHANGED << mem, disk, next_uuid, loc, faults >>
    /\ UNCHANGED << upload_sessions, chunk_dirs, next_upload_id, now >>

\* A write that keeps the chunk that is already in the slot.
ChunkWrite_keeps_first(p) ==
    /\ pc[p] = "k_write"
    /\ IF sloc[p].upload_id \in DOMAIN chunk_dirs
         THEN /\ chunk_dirs' = [ chunk_dirs EXCEPT ![sloc[p].upload_id] =
                                    IF sloc[p].index \in DOMAIN @ THEN @
                                    ELSE Put(@, sloc[p].index, sloc[p].data) ]
              /\ pc' = [ pc EXCEPT ![p] = "k_count" ]
              /\ UNCHANGED << resp, sloc >>
         ELSE /\ resp' = [ resp EXCEPT ![p] = [ kind |-> "error", id |-> sloc[p].upload_id ] ]
              /\ pc' = [ pc EXCEPT ![p] = "idle" ]
              /\ sloc' = [ sloc EXCEPT ![p] = NoSloc ]
              /\ UNCHANGED chunk_dirs
    /\ UNCHANGED << mem, disk, next_uuid, loc, budget, faults >>
    /\ UNCHANGED << upload_sessions, next_upload_id, now >>

\* data.open(6.mebibytes()).into_file(&chunk_path).await?, and in
\* routes/media.rs: if !written.is_complete() { remove_file(&chunk_path);
\* return Err(FileTooLarge) }
ChunkWrite(p) ==
    /\ pc[p] = "k_write"
    /\ IF sloc[p].upload_id \in DOMAIN chunk_dirs
         THEN IF sloc[p].complete \/ sloc[p].via = "videos"
                THEN /\ chunk_dirs' = [ chunk_dirs EXCEPT ![sloc[p].upload_id] =
                                           Put(@, sloc[p].index, sloc[p].data) ]
                     /\ pc' = [ pc EXCEPT ![p] = "k_count" ]
                     /\ UNCHANGED << resp, sloc >>
                ELSE /\ chunk_dirs' = [ chunk_dirs EXCEPT ![sloc[p].upload_id] =
                                           Drop(@, sloc[p].index) ]
                     /\ resp' = [ resp EXCEPT ![p] =
                                     [ kind |-> "too_large", id |-> sloc[p].upload_id ] ]
                     /\ pc' = [ pc EXCEPT ![p] = "idle" ]
                     /\ sloc' = [ sloc EXCEPT ![p] = NoSloc ]
         ELSE /\ resp' = [ resp EXCEPT ![p] = [ kind |-> "error", id |-> sloc[p].upload_id ] ]
              /\ pc' = [ pc EXCEPT ![p] = "idle" ]
              /\ sloc' = [ sloc EXCEPT ![p] = NoSloc ]
              /\ UNCHANGED chunk_dirs
    /\ UNCHANGED << mem, disk, next_uuid, loc, budget, faults >>
    /\ UNCHANGED << upload_sessions, next_upload_id, now >>

\* The comparison left out: the count follows the index written last.
advance_to_index(count, index) == index + 1

\* if chunk_index >= session.chunk_count { session.chunk_count = chunk_index + 1 }
advance(count, index) == IF index >= count THEN index + 1 ELSE count

\* state.upload_sessions.get_mut(upload_id), the advance of chunk_count
ChunkCount(p) ==
    /\ pc[p] = "k_count"
    /\ LET id == sloc[p].upload_id IN
         IF id \in DOMAIN upload_sessions
           THEN /\ upload_sessions' = [ upload_sessions EXCEPT ![id].chunk_count =
                                          advance(@, sloc[p].index) ]
                /\ resp' = [ resp EXCEPT ![p] = [ kind |-> "received", id |-> id ] ]
           ELSE /\ resp' = [ resp EXCEPT ![p] = NotFoundResp(id) ]
                /\ UNCHANGED upload_sessions
    /\ pc' = [ pc EXCEPT ![p] = "idle" ]
    /\ sloc' = [ sloc EXCEPT ![p] = NoSloc ]
    /\ UNCHANGED << mem, disk, next_uuid, loc, budget, faults >>
    /\ UNCHANGED << chunk_dirs, next_upload_id, now >>

\* A complete that reads the session and leaves it in the store.
CompleteBegin_keeps_session(p, id, user, route) ==
    /\ Idle(p)
    /\ Accept
    /\ next_uuid + Cardinality(AwaitingUuid) <= MaxItems
    /\ IF id \notin DOMAIN upload_sessions
         THEN /\ resp' = [ resp EXCEPT ![p] = NotFoundResp(id) ]
              /\ UNCHANGED << upload_sessions, sloc, pc >>
         ELSE /\ UNCHANGED upload_sessions
              /\ LET session == upload_sessions[id] IN
                   IF ~ OwnedBy(session, user)
                     THEN /\ resp' = [ resp EXCEPT ![p] = NotFoundResp(id) ]
                          /\ UNCHANGED << sloc, pc >>
                   ELSE IF route # "videos" /\ session.content_type \notin allowed_types(route)
                     THEN /\ resp' = [ resp EXCEPT ![p] =
                                          [ kind |-> "invalid_type", id |-> id ] ]
                          /\ UNCHANGED << sloc, pc >>
                   ELSE /\ sloc' = [ sloc EXCEPT ![p] = [ NoSloc EXCEPT
                                        !.upload_id = id, !.user = user,
                                        !.session = session ] ]
                        /\ pc' = [ pc EXCEPT ![p] = "c_create" ]
                        /\ resp' = [ resp EXCEPT ![p] = NoResp ]
    /\ UNCHANGED << mem, disk, next_uuid, loc, faults >>
    /\ UNCHANGED << chunk_dirs, next_upload_id, now >>

\* complete_upload with a valid title: state.upload_sessions.remove(upload_id),
\* then the owner check and (routes/media.rs) the type check on the session it
\* removed
CompleteBegin(p, id, user, route) ==
    /\ Idle(p)
    /\ Accept
    /\ next_uuid + Cardinality(AwaitingUuid) <= MaxItems
    /\ IF id \notin DOMAIN upload_sessions
         THEN /\ resp' = [ resp EXCEPT ![p] = NotFoundResp(id) ]
              /\ UNCHANGED << upload_sessions, sloc, pc >>
         ELSE /\ upload_sessions' = Drop(upload_sessions, id)
              /\ LET session == upload_sessions[id] IN
                   IF ~ OwnedBy(session, user)
                     THEN /\ resp' = [ resp EXCEPT ![p] = NotFoundResp(id) ]
                          /\ UNCHANGED << sloc, pc >>
                   ELSE IF route # "videos" /\ session.content_type \notin allowed_types(route)
                     THEN /\ resp' = [ resp EXCEPT ![p] =
                                          [ kind |-> "invalid_type", id |-> id ] ]
                          /\ UNCHANGED << sloc, pc >>
                   ELSE /\ sloc' = [ sloc EXCEPT ![p] = [ NoSloc EXCEPT
                                        !.upload_id = id, !.user = user,
                                        !.session = session ] ]
                        /\ pc' = [ pc EXCEPT ![p] = "c_create" ]
                        /\ resp' = [ resp EXCEPT ![p] = NoResp ]
    /\ UNCHANGED << mem, disk, next_uuid, loc, faults >>
    /\ UNCHANGED << chunk_dirs, next_upload_id, now >>

\* tokio::fs::File::create(&temp_path)
CompleteCreate(p) ==
    /\ pc[p] = "c_create"
    /\ temp_files' = temp_files \cup {p}
    /\ pc' = [ pc EXCEPT ![p] = "c_loop" ]
    /\ UNCHANGED << mem, meta_files, media_files, next_uuid, loc, resp, budget, faults >>
    /\ UNCHANGED chunked

\* chunk_meta.len(): a chunk body is as long as its number says
chunk_len(data) == data

\* total_size after the chunks of out
RECURSIVE total_size(_)
total_size(out) ==
    IF out = << >> THEN 0
    ELSE total_size(SubSeq(out, 1, Len(out) - 1)) + chunk_len(out[Len(out)])

\* A cap that rejects a total of exactly the cap.
exceeds_size_cap_inclusive(total) == total >= MaxTotalSize

\* total_size > 100 * 1024 * 1024
exceeds_size_cap(total) == total > MaxTotalSize

\* the chunk file <index> of the upload, when it is on disk
HasChunk(id, index) == id \in DOMAIN chunk_dirs /\ index \in DOMAIN chunk_dirs[id]

\* A loop that goes on to the next index when a chunk is not on disk.
CompleteLoop_skips_missing(p) ==
    /\ pc[p] = "c_loop"
    /\ LET id == sloc[p].upload_id
           i == sloc[p].i
       IN
       IF i >= sloc[p].session.chunk_count
         THEN /\ chunk_dirs' = Drop(chunk_dirs, id)
              /\ pc' = [ pc EXCEPT ![p] = "c_process" ]
              /\ UNCHANGED << temp_files, resp, sloc >>
       ELSE IF ~ HasChunk(id, i)
         THEN /\ sloc' = [ sloc EXCEPT ![p].i = i + 1 ]
              /\ UNCHANGED << temp_files, chunk_dirs, resp, pc >>
       ELSE IF exceeds_size_cap(total_size(sloc[p].out) + chunk_len(chunk_dirs[id][i]))
         THEN /\ temp_files' = temp_files \ {p}
              /\ chunk_dirs' = Drop(chunk_dirs, id)
              /\ resp' = [ resp EXCEPT ![p] = [ kind |-> "too_large", id |-> id ] ]
              /\ pc' = [ pc EXCEPT ![p] = "idle" ]
              /\ sloc' = [ sloc EXCEPT ![p] = NoSloc ]
       ELSE /\ sloc' = [ sloc EXCEPT ![p].out = Append(@, chunk_dirs[id][i]),
                                      ![p].i = i + 1 ]
            /\ UNCHANGED << temp_files, chunk_dirs, resp, pc >>
    /\ UNCHANGED << mem, meta_files, media_files, next_uuid, loc, budget, faults >>
    /\ UNCHANGED << upload_sessions, next_upload_id, now >>

\* for i in 0..session.chunk_count: one turn of the loop, or the end of it with
\* fs::remove_dir_all(&chunk_dir)
CompleteLoop(p) ==
    /\ pc[p] = "c_loop"
    /\ LET id == sloc[p].upload_id
           i == sloc[p].i
       IN
       IF i >= sloc[p].session.chunk_count
         THEN /\ chunk_dirs' = Drop(chunk_dirs, id)
              /\ pc' = [ pc EXCEPT ![p] = "c_process" ]
              /\ UNCHANGED << temp_files, resp, sloc >>
       ELSE IF ~ HasChunk(id, i)
         THEN /\ resp' = [ resp EXCEPT ![p] = [ kind |-> "missing", id |-> id ] ]
              /\ pc' = [ pc EXCEPT ![p] = "idle" ]
              /\ sloc' = [ sloc EXCEPT ![p] = NoSloc ]
              /\ UNCHANGED << temp_files, chunk_dirs >>
       ELSE IF exceeds_size_cap(total_size(sloc[p].out) + chunk_len(chunk_dirs[id][i]))
         THEN /\ temp_files' = temp_files \ {p}
              /\ chunk_dirs' = Drop(chunk_dirs, id)
              /\ resp' = [ resp EXCEPT ![p] = [ kind |-> "too_large", id |-> id ] ]
              /\ pc' = [ pc EXCEPT ![p] = "idle" ]
              /\ sloc' = [ sloc EXCEPT ![p] = NoSloc ]
       ELSE /\ sloc' = [ sloc EXCEPT ![p].out = Append(@, chunk_dirs[id][i]),
                                      ![p].i = i + 1 ]
            /\ UNCHANGED << temp_files, chunk_dirs, resp, pc >>
    /\ UNCHANGED << mem, meta_files, media_files, next_uuid, loc, budget, faults >>
    /\ UNCHANGED << upload_sessions, next_upload_id, now >>

\* process_uploaded_file(temp_path, &session.content_type, ..): the magic
\* bytes, then the dedup decision on the assembled bytes
CompleteProcess(p) ==
    /\ pc[p] = "c_process"
    /\ IF verify_magic_bytes(sloc[p].out, sloc[p].session.content_type)
         THEN /\ loc' = [ loc EXCEPT ![p] = [ NoLoc EXCEPT !.op = "upload",
                              !.via = "videos", !.user = sloc[p].user,
                              !.declared = sloc[p].session.content_type,
                              !.base_mime = sloc[p].session.content_type,
                              !.payload = BytesOf(sloc[p].out),
                              !.sha = Sha256(BytesOf(sloc[p].out)),
                              !.tlsh = tlsh_hex(BytesOf(sloc[p].out),
                                                sloc[p].session.content_type, "videos") ] ]
              /\ pc' = [ pc EXCEPT ![p] = "u_exact" ]
              /\ UNCHANGED << temp_files, resp >>
         ELSE /\ temp_files' = temp_files \ {p}
              /\ resp' = [ resp EXCEPT ![p] = [ kind |-> "magic", id |-> sloc[p].upload_id ] ]
              /\ pc' = [ pc EXCEPT ![p] = "idle" ]
              /\ UNCHANGED loc
    /\ sloc' = [ sloc EXCEPT ![p] = NoSloc ]
    /\ UNCHANGED << mem, meta_files, media_files, next_uuid, budget, faults >>
    /\ UNCHANGED << upload_sessions, chunk_dirs, next_upload_id, now >>

\* title.trim().len() of a request: empty, short, at the limit, over it
MaxTitleLen == 200
TitleLengths == { 0, 1, MaxTitleLen, MaxTitleLen + 1 }

\* title.is_empty() || title.len() > 200
title_is_valid(len) == ~ (len = 0 \/ len > MaxTitleLen)

\* handle_upload / upload_video with an invalid title or a type that is not
\* in the allow-list of the route: Err(InvalidTitle), Err(InvalidFileType)
UploadReject(p, route, title, mime) ==
    /\ Idle(p)
    /\ Accept
    /\ ~ title_is_valid(title) \/ mime \notin allowed_types(route)
    /\ resp' = [ resp EXCEPT ![p] =
                    [ kind |-> IF ~ title_is_valid(title) THEN "invalid_title"
                                                           ELSE "invalid_type",
                      id |-> NoId ] ]
    /\ UNCHANGED << mem, disk, next_uuid, pc, loc, faults >>
    /\ UNCHANGED chunked

\* complete_upload with an invalid title: Err(InvalidTitle) before the session
\* is looked up
CompleteReject(p, title) ==
    /\ Idle(p)
    /\ Accept
    /\ ~ title_is_valid(title)
    /\ resp' = [ resp EXCEPT ![p] = [ kind |-> "invalid_title", id |-> NoId ] ]
    /\ UNCHANGED << mem, disk, next_uuid, pc, loc, faults >>
    /\ UNCHANGED chunked

\* the steps of the chunked uploads other than the start of init_upload
SessionStep(p) ==
    \/ InitCreate(p)
    \/ \E id \in UploadIds, index \in ChunkIndices, data \in ChunkValues,
          user \in Users : ChunkBegin(p, id, index, data, user)
    \/ \E id \in UploadIds, index \in ChunkIndices, user \in Users, route \in Routes :
          ChunkBeginOver(p, id, index, user, route)
    \/ ChunkWrite(p)
    \/ ChunkCount(p)
    \/ \E route \in Routes, title \in TitleLengths, mime \in MimeTypes :
          UploadReject(p, route, title, mime)
    \/ \E title \in TitleLengths : CompleteReject(p, title)
    \/ \E id \in UploadIds, user \in Users, route \in Routes :
          CompleteBegin(p, id, user, route)
    \/ CompleteCreate(p)
    \/ CompleteLoop(p)
    \/ CompleteProcess(p)

\* init_upload at any time from the last reading of the clock on
ChunkedStep(p) ==
    \/ \E route \in Routes, mime \in MimeTypes, user \in Users, t \in Times :
          InitBegin(p, route, mime, user, t)
    \/ SessionStep(p)

\* init_upload within the hour: the clock stays at its first reading
SameHourStep(p) ==
    \/ \E route \in Routes, mime \in MimeTypes, user \in Users :
          InitBegin(p, route, mime, user, now)
    \/ SessionStep(p)

----------------------------------------------------------------------------
(* Startup: AppState::new rebuilds the maps from the metadata files *)

Owners(catalog) == { k \in DOMAIN catalog : catalog[k].references_id = NoId }

\* videos.insert(meta.id.clone(), meta) for every <id>.meta.json
RebuiltVideos(files) == files

\* video_hashes.insert(meta.sha256.clone(), meta.id.clone()) for every metadata
\* file without references_id, in directory order: when two such files hold
\* the same digest the later one read stays.
RebuiltHashes(files) ==
    LET digests == { files[k].sha256 : k \in Owners(files) } IN
    { h \in [ digests -> DOMAIN files ] :
        \A d \in digests : h[d] \in Owners(files) /\ files[h[d]].sha256 = d }

\* video_tlsh.insert(meta.id.clone(), tlsh_hex.clone()) for those with a digest
RebuiltTlsh(files) ==
    [ k \in { o \in Owners(files) : files[o].tlsh_hash # NoTlsh } |->
        files[k].tlsh_hash ]

Quiescent == \A p \in Procs : Idle(p)

Restart ==
    /\ Quiescent
    /\ Accept
    /\ UNCHANGED faults
    /\ videos' = RebuiltVideos(meta_files)
    /\ video_hashes' \in RebuiltHashes(meta_files)
    /\ video_tlsh' = RebuiltTlsh(meta_files)
    /\ resp' = [ p \in Procs |-> NoResp ]
    /\ upload_sessions' = EmptyMap
    /\ UNCHANGED << disk, next_uuid, pc, loc >>
    /\ UNCHANGED << chunk_dirs, next_upload_id, sloc, now >>

\* The process stops while a handler is running and is started again: the
\* handlers and the session store are gone, the files stay as they are, the
\* catalog and the indices are rebuilt from the metadata files.
Crash ==
    /\ ~ Quiescent
    /\ videos' = RebuiltVideos(meta_files)
    /\ video_hashes' \in RebuiltHashes(meta_files)
    /\ video_tlsh' = RebuiltTlsh(meta_files)
    /\ pc' = [ p \in Procs |-> "idle" ]
    /\ loc' = [ p \in Procs |-> NoLoc ]
    /\ resp' = [ p \in Procs |-> NoResp ]
    /\ upload_sessions' = EmptyMap
    /\ sloc' = [ p \in Procs |-> NoSloc ]
    /\ UNCHANGED << disk, next_uuid, budget, faults >>
    /\ UNCHANGED << chunk_dirs, next_upload_id, now >>

----------------------------------------------------------------------------
(* Specifications *)

Step(p) == UploadStep(p) \/ DeleteStep(p) \/ PatchStep(p)

Next == (\E p \in Procs : Step(p)) \/ Restart

\* any interleaving of the handlers
Spec == Init /\ [][Next]_vars

\* one request at a time: a handler starts only when no other is in flight
SeqSpec == SeqInit /\ [][Next]_vars

\* uploads and deletes, one request at a time
UploadDeleteNext == \E p \in Procs : UploadStep(p) \/ DeleteStep(p)

UploadsAndDeletes == SeqInit /\ [][UploadDeleteNext]_vars

\* uploads and deletes, one request at a time, and stops of the process
\* inside them
CrashNext == (\E p \in Procs : UploadStep(p) \/ DeleteStep(p)) \/ Crash

CrashRuns == SeqInit /\ [][CrashNext]_vars

\* uploads only, in any interleaving
UploadNext == \E p \in Procs : UploadStep(p)

ConcurrentUploads == Init /\ [][UploadNext]_vars

\* chunked uploads and whole uploads, in any interleaving
ChunkedNext == \E p \in Procs : ChunkedStep(p) \/ UploadStep(p)

ChunkedUploads == ChunkedInit /\ [][ChunkedNext]_vars

\* chunked uploads within the hour, one request at a time
SameHourNext == \E p \in Procs : SameHourStep(p) \/ UploadStep(p)

SeqChunkedUploads == SeqChunkedInit /\ [][SameHourNext]_vars

\* uploads, comments-disabled updates and deletes by any principal, in any
\* interleaving
AuthNext ==
    \E p \in Procs :
        \/ \E b \in Payloads, user \in Users : UploadBeginBy(p, b, user)
        \/ PipelineStep(p)
        \/ \E id \in Ids, value \in BOOLEAN, user \in Users :
              PatchCommentsDisabled(p, id, value, user)
        \/ PatchPersist(p)
        \/ \E id \in Ids, user \in Users : DeleteRequest(p, id, user)
        \/ DeleteTail(p)

Authorization == AuthInit /\ [][AuthNext]_vars

\* single-shot uploads followed from the receipt of their body
StagedNext ==
    \E p \in Procs :
        \/ \E body \in Bodies, mime \in DeclaredTypes, complete \in BOOLEAN :
              ReceiveBegin(p, body, mime, complete)
        \/ StageStep(p)
        \/ PipelineStep(p)

Staged == StagedInit /\ [][StagedNext]_vars

\* uploads followed from the receipt of their body, with deletes and flag
\* updates, in any interleaving
SuspensionNext ==
    \E p \in Procs :
        \/ \E body \in Bodies, mime \in DeclaredTypes, complete \in BOOLEAN :
              ReceiveBegin(p, body, mime, complete)
        \/ StageStep(p)
        \/ PipelineStep(p)
        \/ DeleteStep(p)
        \/ PatchStep(p)

Suspensions == StagedInit /\ [][SuspensionNext]_vars

----------------------------------------------------------------------------
(* stream_file: the file and the content type a GET of an item is served from *)

\* if let Some(ref ref_id) = meta.references_id
\*     { videos.get(ref_id).map(|v| v.filename).unwrap_or_else(|| meta.filename) }
\* else { meta.filename }
resolve_filename(catalog, meta) ==
    IF meta.references_id # NoId /\ meta.references_id \in DOMAIN catalog
    THEN catalog[meta.references_id].filename
    ELSE meta.filename

\* state.videos.get(id).ok_or(VideoNotFound)?, the path that is opened and the
\* content type of the response
stream_file(catalog, id) ==
    IF id \notin DOMAIN catalog
    THEN [ kind |-> "notfound", filename |-> NoFilename, content_type |-> "" ]
    ELSE [ kind |-> "ok", filename |-> resolve_filename(catalog, catalog[id]),
           content_type |-> catalog[id].content_type ]

----------------------------------------------------------------------------
(* Vocabulary of the claims *)

Range(f) == { f[x] : x \in DOMAIN f }

\* the owning items of the catalog that hold digest d
OwnersOf(d) == { k \in Owners(videos) : videos[k].sha256 = d }

\* the media files whose bytes have digest d
FilesOf(d) == { f \in DOMAIN media_files : media_files[f] = d }

\* the media files named after id
FilesNamed(files, id) == { f \in DOMAIN files : f # NoFilename /\ f[1] = id }

Digests == { Sha256(b) : b \in Payloads }

\* a handler answers its request in this step
UploadReturns(p) == loc[p].op = "upload" /\ pc'[p] = "idle"
LinkReturns(p) == pc[p] = "u_link_persist" /\ pc'[p] = "idle"
DeleteReturns(p) == loc[p].op = "delete" /\ pc'[p] = "idle"
PatchReturns(p) == pc[p] = "p_persist" /\ pc'[p] = "idle"

----------------------------------------------------------------------------
(* C1 *)

\* C1: once concurrent uploads of the same bytes have all returned, one of
\* them was answered as new and the others as duplicates of it: the catalog
\* holds one owning item for the digest, the disk one media file with these
\* bytes, and no two handlers were answered "new" for the same digest.
C1_ConcurrentUploadsCommitOnce ==
    Quiescent =>
        /\ \A d \in Digests : Cardinality(OwnersOf(d)) <= 1
        /\ \A d \in Digests : Cardinality(FilesOf(d)) <= 1
        /\ \A p, q \in Procs :
              ( /\ p # q
                /\ resp[p].kind = "new" /\ resp[q].kind = "new"
                /\ resp[p].id \in DOMAIN videos /\ resp[q].id \in DOMAIN videos )
              => videos[resp[p].id].sha256 # videos[resp[q].id].sha256

----------------------------------------------------------------------------
(* C2 *)

\* The upload p is finishing carries bytes that another catalog item holds.
AcceptedBefore(p) ==
    \E k \in DOMAIN videos \ { loc[p].meta.id } : videos[k].sha256 = loc[p].sha

\* The upload built no item, kept no file and was answered as a duplicate of id.
AnsweredDuplicate(p, id) ==
    /\ resp'[p] = [ kind |-> "dup", id |-> id ]
    /\ loc[p].meta = NoMeta
    /\ videos' = videos /\ meta_files' = meta_files
    /\ media_files' = media_files
    /\ p \notin temp_files'
    /\ video_hashes' = video_hashes /\ video_tlsh' = video_tlsh

\* C2 as stated: with one request at a time, an upload of bytes an earlier
\* upload was accepted with creates no catalog entry and no media file, deletes
\* its temp file and is answered as a duplicate of the earlier item.
C2_SecondUploadOfAcceptedBytes ==
    [][ \A p \in Procs :
          (UploadReturns(p) /\ AcceptedBefore(p)) =>
              \E k \in DOMAIN videos : /\ videos[k].sha256 = loc[p].sha
                                       /\ AnsweredDuplicate(p, k) ]_vars

\* The digest of the upload p is finishing is indexed to another item.
IndexedBefore(p) ==
    /\ loc[p].sha \in DOMAIN video_hashes
    /\ video_hashes[loc[p].sha] # loc[p].meta.id

\* C2, amended: with one request at a time, an upload of bytes whose digest the
\* exact-hash index holds (an earlier upload committed them as a new owning
\* item) creates no catalog entry and no media file, deletes its temp file and
\* is answered as a duplicate of the indexed item; the index is unchanged.
C2_SecondUploadOfIndexedBytes ==
    [][ \A p \in Procs :
          (UploadReturns(p) /\ IndexedBefore(p)) =>
              AnsweredDuplicate(p, video_hashes[loc[p].sha]) ]_vars

\* an upload was answered as a duplicate of an owning item still in the catalog
C2_Witness ==
    \E p \in Procs : /\ resp[p].kind = "dup"
                     /\ resp[p].id \in Owners(videos)
                     /\ Cardinality(DOMAIN media_files) = 1

----------------------------------------------------------------------------
(* C3 *)

\* C3: an upload that takes the fuzzy branch commits a new item with a fresh
\* id that references the index entry it matched and carries the filename of
\* the original's media file; its temp file is gone, no media file is named
\* after the new id and neither index has an entry for it.
C3_FuzzyLinkCarriesOriginalFilename ==
    [][ \A p \in Procs :
          LinkReturns(p) =>
              LET m == loc[p].meta IN
              /\ m.id \in DOMAIN videos' /\ videos'[m.id] = m
              /\ m.references_id = loc[p].original
              /\ m.id # loc[p].original
              /\ m.filename \in FilesNamed(media_files', loc[p].original)
              /\ p \notin temp_files'
              /\ FilesNamed(media_files', m.id) = {}
              /\ m.id \notin Range(video_hashes')
              /\ m.id \notin DOMAIN video_tlsh' ]_vars

----------------------------------------------------------------------------
(* C4 *)

\* the catalog items whose reference names id
ReferrersOf(catalog, id) == { k \in DOMAIN catalog : catalog[k].references_id = id }

\* The delete p is finishing removed an owning item that others reference.
DeletesReferencedOwner(p) ==
    /\ DeleteReturns(p)
    /\ loc[p].meta.references_id = NoId
    /\ ReferrersOf(videos, loc[p].meta.id) # {}

\* C4: the delete of an owning item that a catalog item still references
\* removes the item's catalog entry and metadata file and nothing else: its
\* media file and its entries in both indices stay, and so does every other
\* catalog item.
C4_DeleteOfReferencedOwnerKeepsPayload ==
    [][ \A p \in Procs :
          DeletesReferencedOwner(p) =>
              LET m == loc[p].meta IN
              /\ m.id \notin DOMAIN videos'
              /\ m.id \notin DOMAIN meta_files'
              /\ m.filename \in DOMAIN media_files'
              /\ media_files'[m.filename] = m.sha256
              /\ m.sha256 \in DOMAIN video_hashes'
              /\ video_hashes'[m.sha256] = m.id
              /\ m.tlsh_hash # NoTlsh =>
                    (m.id \in DOMAIN video_tlsh' /\ video_tlsh'[m.id] = m.tlsh_hash)
              /\ videos' = videos ]_vars

\* an owning item was deleted while a catalog item references it, and its file
\* is on disk
C4_Witness ==
    \E p \in Procs :
        /\ resp[p].kind = "deleted"
        /\ ReferrersOf(videos, resp[p].id) # {}
        /\ FilesNamed(media_files, resp[p].id) # {}
        /\ resp[p].id \in Range(video_hashes)
        /\ resp[p].id \in DOMAIN video_tlsh

----------------------------------------------------------------------------
(* C5 *)

\* the owning id of the payload the deleted item stood for
PayloadOf(meta) == IF meta.references_id = NoId THEN meta.id ELSE meta.references_id

\* no catalog item is, or references, the owner o
Unused(catalog, o) == o \notin DOMAIN catalog /\ ReferrersOf(catalog, o) = {}

\* C5: when, in a run of uploads and deletes in which no file operation
\* failed, a delete leaves a payload without any catalog item that owns or
\* references it, the payload's media file and its entries in the exact-hash
\* and the fuzzy-hash index are gone when the delete returns.
C5_UnusedPayloadIsCollected ==
    [][ \A p \in Procs :
          (DeleteReturns(p) /\ faults = 0) =>
              LET o == PayloadOf(loc[p].meta) IN
              Unused(videos', o) =>
                  /\ FilesNamed(media_files', o) = {}
                  /\ o \notin Range(video_hashes')
                  /\ o \notin DOMAIN video_tlsh' ]_vars

----------------------------------------------------------------------------
(* C6 *)

Referencing(catalog) == { k \in DOMAIN catalog : catalog[k].references_id # NoId }

\* C6 as stated: every referencing item of the catalog names an item that is
\* in the catalog and is not itself a referencing item.
C6_ReferencesNamePresentOwners ==
    \A k \in Referencing(videos) :
        /\ videos[k].references_id \in DOMAIN videos
        /\ videos[videos[k].references_id].references_id = NoId

\* C6, amended: references never chain. The item a referencing item names is
\* never itself a referencing item (so no item references itself); it is an
\* owning item of the catalog, or an item that has been deleted from it.
C6_ReferencesNeverChain ==
    \A k \in Referencing(videos) :
        videos[k].references_id \in DOMAIN videos =>
            videos[videos[k].references_id].references_id = NoId

\* two items reference an owning item that is in the catalog
C6_Witness ==
    \E o \in Owners(videos) :
        Cardinality({ k \in Referencing(videos) : videos[k].references_id = o }) >= 2

----------------------------------------------------------------------------
(* C7 *)

OwnsItsFile(m) ==
    /\ m.references_id = NoId
    /\ m.filename = FinalFilename(m.id, extension_for_mime(m.content_type))
    /\ m.filename \in DOMAIN media_files

SharesAFile(m) ==
    /\ m.references_id # NoId
    /\ FilesNamed(media_files, m.id) = {}

\* C7: every catalog item either has no reference and owns the media file
\* <id><ext>, which is on disk, or has a reference and no media file is named
\* after its id.
C7_OwnsFileOrReferences ==
    \A k \in DOMAIN videos : OwnsItsFile(videos[k]) \/ SharesAFile(videos[k])

----------------------------------------------------------------------------
(* C8 *)

\* C8: whenever no request is in flight, the exact-hash index is a bijection
\* between digests and owning items: every entry digest -> id names an owning
\* item of the catalog with that digest, and the digest of every owning item
\* of the catalog maps to that item.
C8_ExactIndexIsBijection ==
    Quiescent =>
        /\ \A d \in DOMAIN video_hashes :
              /\ video_hashes[d] \in Owners(videos)
              /\ videos[video_hashes[d]].sha256 = d
        /\ \A k \in Owners(videos) :
              /\ videos[k].sha256 \in DOMAIN video_hashes
              /\ video_hashes[videos[k].sha256] = k

----------------------------------------------------------------------------
(* C9 *)

\* C9: whenever no request is in flight and no file operation has failed,
\* AppState::new on the metadata files yields the catalog, the exact-hash
\* index and the fuzzy-hash index that are in memory.
C9_RestartRebuildsMemory ==
    (Quiescent /\ faults = 0) =>
        /\ videos = RebuiltVideos(meta_files)
        /\ video_hashes \in RebuiltHashes(meta_files)
        /\ video_tlsh = RebuiltTlsh(meta_files)

----------------------------------------------------------------------------
(* C10 *)

\* the handler answers success for the item it committed or updated
ReturnsSuccess(p) ==
    /\ pc[p] # "idle" /\ pc'[p] = "idle"
    /\ resp'[p].kind \in { "new", "linked", "patched" }

\* C10: with one request at a time, when a commit or a flag update answers
\* success the item's metadata file holds the item's catalog entry.
C10_SuccessMeansMetadataWritten ==
    [][ \A p \in Procs :
          ReturnsSuccess(p) =>
              /\ resp'[p].id \in DOMAIN videos'
              /\ resp'[p].id \in DOMAIN meta_files'
              /\ meta_files'[resp'[p].id] = videos'[resp'[p].id] ]_vars

----------------------------------------------------------------------------
(* C11 *)

\* both handlers were answered for a flag update of item id
BothPatched(id) ==
    /\ Quiescent
    /\ \A p \in Procs : resp[p] = [ kind |-> "patched", id |-> id ]

\* C11: once two flag updates of the same item have both returned, and no
\* write failed, the item's metadata file holds the item's catalog entry.
C11_FlagUpdatesLastWriterWins ==
    \A id \in Ids :
        (BothPatched(id) /\ faults = 0 /\ id \in DOMAIN videos) =>
            /\ id \in DOMAIN meta_files
            /\ meta_files[id] = videos[id]

----------------------------------------------------------------------------
(* C12 *)

\* C12: once every handler has returned, an item whose delete was answered
\* with success has no metadata file on disk.
C12_DeletedItemHasNoMetadataFile ==
    Quiescent =>
        \A p \in Procs :
            resp[p].kind = "deleted" => resp[p].id \notin DOMAIN meta_files

----------------------------------------------------------------------------
(* C13 *)

\* C13: once every handler has returned, the media file of the original of
\* every referencing item of the catalog is on disk.
C13_ReferencedFileIsOnDisk ==
    Quiescent =>
        \A k \in Referencing(videos) :
            FilesNamed(media_files, videos[k].references_id) # {}

----------------------------------------------------------------------------
(* C14 *)

\* an accepted chunk write records its index in this step
ChunkRecorded(p) ==
    /\ pc[p] = "k_count"
    /\ resp'[p].kind = "received"

\* no other chunk write to the upload is between its file and its count
NoWriterOf(id, p) ==
    \A q \in Procs \ {p} : ~ (pc[q] = "k_count" /\ sloc[q].upload_id = id)

Highest(indices) == CHOOSE i \in indices : \A j \in indices : j <= i

\* C14: the chunk count of a session never decreases; an accepted write of
\* chunk index leaves it at max(previous count, index + 1), which, when no
\* other write to the session is in flight, is above every index whose chunk
\* is on disk.
C14_ChunkCountIsMonotonic ==
    [][ /\ \A id \in (DOMAIN upload_sessions) \cap (DOMAIN upload_sessions') :
              upload_sessions'[id].chunk_count >= upload_sessions[id].chunk_count
        /\ \A p \in Procs :
              ChunkRecorded(p) =>
                  LET id == sloc[p].upload_id
                      before == upload_sessions[id].chunk_count
                      after == upload_sessions'[id].chunk_count
                  IN
                  /\ after = IF before >= sloc[p].index + 1 THEN before
                                                           ELSE sloc[p].index + 1
                  /\ (NoWriterOf(id, p) /\ id \in DOMAIN chunk_dirs) =>
                        \A i \in DOMAIN chunk_dirs[id] : i < after ]_vars

\* chunk 1 and then chunk 0 were written, or chunk 0 again: the count is 2
C14_Witness ==
    \E id \in DOMAIN upload_sessions, p \in Procs :
        /\ resp[p] = [ kind |-> "received", id |-> id ]
        /\ id \in DOMAIN chunk_dirs
        /\ DOMAIN chunk_dirs[id] = { 0, 1 }
        /\ upload_sessions[id].chunk_count = 2

----------------------------------------------------------------------------
(* C15 *)

\* the chunks 0 .. n-1 of the upload, and no others, are on disk
AllWritten(id, n) == id \in DOMAIN chunk_dirs /\ DOMAIN chunk_dirs[id] = 0 .. n - 1

\* chunk0 ++ chunk1 ++ .. ++ chunk(n-1), as they are on disk
InIndexOrder(id, n) == [ i \in 1 .. n |-> chunk_dirs[id][i - 1] ]

\* C15: with one request at a time, a chunk write leaves its body in the slot
\* of its index, whatever was there, and touches no other slot; and when the
\* chunks 0 .. N-1 of an upload are on disk, within the size cap, complete
\* assembles them in index order, whatever the order they were written in.
C15_AssemblyIsOrderIndependent ==
    [][ \A p \in Procs :
          /\ (pc[p] = "k_write" /\ pc'[p] = "k_count") =>
                LET id == sloc[p].upload_id IN
                /\ chunk_dirs'[id][sloc[p].index] = sloc[p].data
                /\ \A i \in DOMAIN chunk_dirs[id] \ { sloc[p].index } :
                      chunk_dirs'[id][i] = chunk_dirs[id][i]
          /\ \A n \in 1 .. MaxChunkIndex + 1 :
                ( /\ pc[p] = "c_loop" /\ pc'[p] # "c_loop"
                  /\ AllWritten(sloc[p].upload_id, n)
                  /\ total_size(InIndexOrder(sloc[p].upload_id, n)) <= MaxTotalSize ) =>
                    /\ pc'[p] = "c_process"
                    /\ sloc[p].out = InIndexOrder(sloc[p].upload_id, n) ]_vars

\* an upload of two different chunks has been assembled
C15_Witness ==
    \E p \in Procs :
        /\ pc[p] = "c_process"
        /\ Len(sloc[p].out) = 2
        /\ sloc[p].out[1] # sloc[p].out[2]

----------------------------------------------------------------------------
(* C16 *)

\* the loop of complete is at an index whose chunk is not on disk
AtMissingChunk(p) ==
    /\ pc[p] = "c_loop"
    /\ sloc[p].i < sloc[p].session.chunk_count
    /\ ~ HasChunk(sloc[p].upload_id, sloc[p].i)

\* C16: when the loop of complete takes its turn at an index below the chunk count
\* whose chunk is not on disk, complete fails with an error and changes
\* neither the catalog nor the indices nor the media files; an upload is
\* handed to the pipeline only with all chunk_count chunks assembled.
C16_MissingChunkFailsComplete ==
    [][ \A p \in Procs :
          /\ (AtMissingChunk(p) /\ sloc'[p] # sloc[p]) =>
                /\ resp'[p] = [ kind |-> "missing", id |-> sloc[p].upload_id ]
                /\ pc'[p] = "idle"
                /\ UNCHANGED << mem, meta_files, media_files >>
          /\ pc'[p] = "c_process" =>
                Len(sloc'[p].out) = sloc'[p].session.chunk_count ]_vars

\* complete failed on a missing chunk after it had assembled an earlier one
C16_Witness ==
    \E p \in Procs :
        /\ resp[p].kind = "missing"
        /\ resp[p].id \in DOMAIN chunk_dirs
        /\ DOMAIN chunk_dirs[resp[p].id] = { 0, 2 }

----------------------------------------------------------------------------
(* C17 *)

\* a request is accepted in this step, by handler p if by any
Accepted(p) == pc[p] = "idle" /\ budget' # budget

\* a complete call of the owner that found the session of id returns in this
\* step
CompleteReturns(p, id) ==
    \/ /\ id \in DOMAIN upload_sessions
       /\ Accepted(p)
       /\ \E user \in Users, route \in Routes :
             OwnedBy(upload_sessions[id], user) /\ CompleteBegin(p, id, user, route)
       /\ pc'[p] = "idle"
    \/ /\ pc[p] \in { "c_loop", "c_process" }
       /\ sloc[p].upload_id = id
       /\ pc'[p] = "idle"

\* C17: when a complete call of the owner that found the session returns, the
\* chunk directory of the upload is not on disk.
C17_CompleteRemovesChunkDirectory ==
    [][ \A p \in Procs, id \in UploadIds :
          CompleteReturns(p, id) => id \notin DOMAIN chunk_dirs' ]_vars

----------------------------------------------------------------------------
(* C18 *)

\* C18: a complete call by a principal other than the creator of the session
\* is answered NotFound and leaves the session and its chunk directory as
\* they were.
C18_ForeignCompleteLeavesSession ==
    [][ \A p \in Procs, id \in UploadIds, user \in Users, route \in Routes :
          ( /\ Accepted(p)
            /\ id \in DOMAIN upload_sessions
            /\ ~ OwnedBy(upload_sessions[id], user)
            /\ CompleteBegin(p, id, user, route) ) =>
              /\ resp'[p] = NotFoundResp(id)
              /\ UNCHANGED << upload_sessions, chunk_dirs >> ]_vars

----------------------------------------------------------------------------
(* C19 *)

\* C19: a chunk write by a principal other than the creator of the session
\* and a chunk write to an unknown upload id get the same answer, NotFound;
\* neither writes a chunk file nor changes a session.
C19_ForeignChunkWriteIsNotFound ==
    [][ \A p \in Procs, id \in UploadIds, index \in ChunkIndices,
           data \in ChunkValues, user \in Users :
          ( /\ Accepted(p)
            /\ \/ id \notin DOMAIN upload_sessions
               \/ ~ OwnedBy(upload_sessions[id], user)
            /\ ChunkBegin(p, id, index, data, user) ) =>
              /\ resp'[p] = NotFoundResp(id)
              /\ pc'[p] = "idle"
              /\ UNCHANGED << upload_sessions, chunk_dirs >> ]_vars

\* a chunk write was answered NotFound for a session that is in the store,
\* with chunks of its owner on disk
C19_Witness ==
    \E p \in Procs, id \in DOMAIN upload_sessions :
        /\ resp[p] = NotFoundResp(id)
        /\ id \in DOMAIN chunk_dirs
        /\ chunk_dirs[id] # EmptyMap
        /\ upload_sessions[id].chunk_count = 1 + Highest(DOMAIN chunk_dirs[id])

----------------------------------------------------------------------------
(* C20 *)

\* the handlers that are completing an upload
Completing == { p \in Procs : pc[p] \in { "c_create", "c_loop", "c_process" } }

\* C20: the complete call of its owner removes the session from the store; a
\* chunk write or a complete for an upload id that is not in the store is
\* answered NotFound and puts nothing in the store; an upload that is being
\* completed is not in the store, and no two handlers complete the same one.
C20_CompleteConsumesSession ==
    [][ /\ \A p \in Procs, id \in UploadIds, user \in Users :
              Accepted(p) =>
              /\ \A route \in Routes :
                    CompleteBegin(p, id, user, route) =>
                        /\ id \notin DOMAIN upload_sessions'
                        /\ id \notin DOMAIN upload_sessions =>
                              resp'[p] = NotFoundResp(id) /\ pc'[p] = "idle"
              /\ \A index \in ChunkIndices, data \in ChunkValues :
                    ( /\ id \notin DOMAIN upload_sessions
                      /\ ChunkBegin(p, id, index, data, user) ) =>
                        /\ resp'[p] = NotFoundResp(id) /\ pc'[p] = "idle"
                        /\ UNCHANGED << upload_sessions, chunk_dirs >>
        /\ \A p \in Completing' :
              /\ sloc'[p].upload_id \notin DOMAIN upload_sessions'
              /\ \A q \in Completing' \ {p} :
                    sloc'[q].upload_id # sloc'[p].upload_id ]_vars

\* the complete of an upload went as far as the pipeline, and a later request
\* for its upload id was answered NotFound
C20_Witness ==
    \E p, q \in Procs :
        /\ resp[q].kind = "magic"
        /\ resp[p] = NotFoundResp(resp[q].id)
        /\ resp[p].id \notin DOMAIN upload_sessions
        /\ resp[p].id \notin DOMAIN chunk_dirs

----------------------------------------------------------------------------
(* C27 *)

\* the upload p runs is in the fuzzy branch
Linking(p) == pc[p] \in { "u_link_rm", "u_link_get", "u_link_insert", "u_link_persist" }

\* the referencing items of the catalog, other than the one p builds, that
\* hold the bytes of p's upload and whose original the fuzzy index still matches
EarlierLinks(p) ==
    { k \in DOMAIN videos \ { loc[p].meta.id } :
        /\ videos[k].sha256 = loc[p].sha
        /\ videos[k].references_id # NoId
        /\ videos[k].references_id \in SimilarTlsh(video_tlsh, loc[p].tlsh) }

\* C27: with one request at a time, an upload of bytes that an earlier upload
\* committed as a referencing item is committed as one more referencing item,
\* with an id of its own and the same original; no step of the fuzzy branch
\* changes the media files, the exact-hash index or the fuzzy index, and its
\* insert adds exactly the new id to the catalog.
C27_FuzzyLinkIsNotIdempotent ==
    [][ \A p \in Procs :
          /\ (UploadReturns(p) /\ EarlierLinks(p) # {}) =>
                LET m == loc[p].meta IN
                /\ resp'[p] = [ kind |-> "linked", id |-> m.id ]
                /\ m.id \in DOMAIN videos'
                /\ \A k \in EarlierLinks(p) :
                      /\ k # m.id
                      /\ k \in DOMAIN videos'
                      /\ videos'[m.id].references_id = videos'[k].references_id
          /\ (Linking(p) /\ pc'[p] # pc[p]) =>
                /\ UNCHANGED << media_files, video_hashes, video_tlsh >>
                /\ pc[p] = "u_link_insert" =>
                      /\ next_uuid \notin DOMAIN videos
                      /\ DOMAIN videos' = DOMAIN videos \cup { next_uuid }
                      /\ \A k \in DOMAIN videos : videos'[k] = videos[k] ]_vars

\* the same near-duplicate bytes were uploaded twice: two referencing items
\* of one original, and the one media file of the original
C27_Witness ==
    \E j, k \in DOMAIN videos :
        /\ j # k
        /\ videos[j].sha256 = videos[k].sha256
        /\ videos[j].references_id # NoId
        /\ videos[j].references_id = videos[k].references_id
        /\ videos[j].references_id \in DOMAIN videos
        /\ Cardinality(DOMAIN media_files) = 1
        /\ Cardinality(DOMAIN video_hashes) = 1
        /\ \E p \in Procs : resp[p] = [ kind |-> "linked", id |-> k ]

----------------------------------------------------------------------------
(* C30 *)

\* the exact-hash index holds the digest of p's upload for another item
ExactHit(p) ==
    /\ loc[p].sha \in DOMAIN video_hashes
    /\ video_hashes[loc[p].sha] # loc[p].meta.id

\* the fuzzy index holds, for another item, a digest within the threshold of
\* the one of p's upload
FuzzyHit(p) ==
    /\ loc[p].tlsh # NoTlsh
    /\ SimilarTlsh(video_tlsh, loc[p].tlsh) \ { loc[p].meta.id } # {}

\* C30: with one request at a time, an upload is answered as an exact
\* duplicate exactly when the exact-hash index holds its digest, also when the
\* fuzzy index matches too; it is committed as a referencing item exactly when
\* the exact check misses and the fuzzy check hits; and it goes the way of a
\* new owning item exactly when both miss.
C30_DedupOrderExactFuzzyNew ==
    [][ \A p \in Procs :
          UploadReturns(p) =>
              /\ resp'[p].kind = "dup" <=> ExactHit(p)
              /\ resp'[p].kind = "linked" <=> (~ ExactHit(p) /\ FuzzyHit(p))
              /\ resp'[p].kind \in { "new", "error" } <=>
                    (~ ExactHit(p) /\ ~ FuzzyHit(p)) ]_vars

\* an upload was answered as an exact duplicate of an item whose fuzzy digest
\* is in the fuzzy index too, at distance 0 of the upload's
C30_Witness ==
    \E p \in Procs :
        /\ resp[p].kind = "dup"
        /\ resp[p].id \in DOMAIN video_tlsh
        /\ resp[p].id \in DOMAIN videos
        /\ TlshDiff(video_tlsh[resp[p].id], videos[resp[p].id].tlsh_hash) < TlshThreshold

----------------------------------------------------------------------------
(* C21 *)

\* init_upload goes on to create a session in this step: it has made its sweep
InitSweeps(p) == Accepted(p) /\ pc'[p] = "i_create"

\* the session of an upload id init handed out is no longer in the store
Gone(id) ==
    /\ id < next_upload_id
    /\ id \notin DOMAIN upload_sessions
    /\ \A q \in Procs : ~ (pc[q] = "i_create" /\ sloc[q].upload_id = id)

\* C21: an init_upload that creates a session removes the sessions created
\* more than an hour before it, with their chunk directories, and leaves the
\* others and their chunks as they were; a session leaves the store only in
\* such a sweep or in a complete call for it; and once it has left, it never
\* comes back and chunk writes and completes for it are answered NotFound.
C21_SweepEvictsStaleSessions ==
    [][ /\ \A p \in Procs :
              InitSweeps(p) =>
                  \A id \in DOMAIN upload_sessions :
                      IF upload_sessions[id].created_at + StaleAfter < now'
                        THEN /\ id \notin DOMAIN upload_sessions'
                             /\ id \notin DOMAIN chunk_dirs'
                        ELSE /\ id \in DOMAIN upload_sessions'
                             /\ upload_sessions'[id] = upload_sessions[id]
                             /\ id \in DOMAIN chunk_dirs =>
                                   /\ id \in DOMAIN chunk_dirs'
                                   /\ chunk_dirs'[id] = chunk_dirs[id]
        /\ \A id \in (DOMAIN upload_sessions) \ (DOMAIN upload_sessions') :
              \E p \in Procs :
                  /\ Accepted(p)
                  /\ \/ pc'[p] = "i_create"
                     \/ \E user \in Users, route \in Routes :
                           CompleteBegin(p, id, user, route)
        /\ \A id \in UploadIds :
              Gone(id) =>
                  /\ id \notin DOMAIN upload_sessions'
                  /\ \A p \in Procs, user \in Users :
                        Accepted(p) =>
                        /\ \A index \in ChunkIndices, data \in ChunkValues :
                              ChunkBegin(p, id, index, data, user) =>
                                  resp'[p] = NotFoundResp(id) /\ pc'[p] = "idle"
                        /\ \A route \in Routes :
                              CompleteBegin(p, id, user, route) =>
                                  resp'[p] = NotFoundResp(id) /\ pc'[p] = "idle" ]_vars

\* an init has swept a session of two hours and kept one of exactly an hour
C21_Witness ==
    \E p \in Procs, old, young \in UploadIds :
        /\ pc[p] = "i_create"
        /\ old < young /\ young < sloc[p].upload_id
        /\ Gone(old)
        /\ old \notin DOMAIN chunk_dirs
        /\ young \in DOMAIN upload_sessions
        /\ young \in DOMAIN chunk_dirs
        /\ upload_sessions[young].created_at + StaleAfter = now

----------------------------------------------------------------------------
(* C24 *)

\* C24: a single-shot upload, an init or a complete that is rejected for its
\* title or for a type that is not in the allow-list of the route leaves the
\* catalog, the indices, the files, the upload sessions and the chunk
\* directories as they were.
C24_InvalidInputHasNoSideEffects ==
    [][ \A p \in Procs :
          Accepted(p) =>
              /\ \A route \in Routes, title \in TitleLengths, mime \in MimeTypes :
                    UploadReject(p, route, title, mime) =>
                        UNCHANGED << mem, disk, upload_sessions, chunk_dirs >>
              /\ \A title \in TitleLengths :
                    CompleteReject(p, title) =>
                        UNCHANGED << mem, disk, upload_sessions, chunk_dirs >>
              /\ \A route \in Routes, mime \in MimeTypes, user \in Users, t \in Times :
                    ( /\ mime \notin allowed_types(route)
                      /\ InitBegin(p, route, mime, user, t) ) =>
                        UNCHANGED << mem, disk, upload_sessions, chunk_dirs >>
              /\ \A id \in UploadIds, user \in Users, route \in Routes :
                    ( /\ CompleteBegin(p, id, user, route)
                      /\ resp'[p].kind = "invalid_type" ) =>
                        UNCHANGED << mem, disk, upload_sessions, chunk_dirs >> ]_vars

----------------------------------------------------------------------------
(* C25 *)

\* the loop of complete takes its turn at a chunk that is on disk
AtChunk(p) ==
    /\ pc[p] = "c_loop"
    /\ sloc[p].i < sloc[p].session.chunk_count
    /\ HasChunk(sloc[p].upload_id, sloc[p].i)

\* the size of the chunks 0 .. i, i the index the loop is at
CumulativeSize(p) ==
    total_size(sloc[p].out) + chunk_len(chunk_dirs[sloc[p].upload_id][sloc[p].i])

\* C25: with one request at a time, complete ends as too large exactly when
\* its loop is at a chunk with which the size of the chunks so far exceeds the
\* cap; a total of exactly the cap goes on. On the rejection the temp file and
\* the chunk directory are removed, the session is not in the store and the
\* catalog, the indices and the media files are unchanged.
C25_AssemblyRejectedOverCap ==
    [][ \A p \in Procs :
          /\ (AtChunk(p) /\ sloc'[p] # sloc[p]) =>
                IF CumulativeSize(p) > MaxTotalSize
                  THEN /\ resp'[p] = [ kind |-> "too_large", id |-> sloc[p].upload_id ]
                       /\ pc'[p] = "idle"
                       /\ p \notin temp_files'
                       /\ sloc[p].upload_id \notin DOMAIN chunk_dirs'
                       /\ sloc[p].upload_id \notin DOMAIN upload_sessions'
                       /\ UNCHANGED << mem, meta_files, media_files >>
                  ELSE /\ pc'[p] = "c_loop"
                       /\ resp'[p] = resp[p]
                       /\ total_size(sloc'[p].out) = CumulativeSize(p)
          /\ (pc[p] \in { "c_create", "c_loop", "c_process" }
                /\ resp'[p].kind = "too_large") =>
                  AtChunk(p) /\ CumulativeSize(p) > MaxTotalSize ]_vars

\* a complete was rejected as too large: its session, its chunk directory and
\* its temp file are gone
C25_Witness ==
    \E p \in Procs :
        /\ resp[p].kind = "too_large"
        /\ pc[p] = "idle"
        /\ resp[p].id < next_upload_id
        /\ resp[p].id \notin DOMAIN upload_sessions
        /\ resp[p].id \notin DOMAIN chunk_dirs
        /\ p \notin temp_files
        /\ videos = EmptyMap

----------------------------------------------------------------------------
(* C26 *)

\* C26: a chunk write whose body is over the per-chunk cap is answered as too
\* large, leaves no chunk file at its index and does not advance the chunk
\* count; no write of such a body is answered as received.
C26_OversizeChunkIsRejected ==
    [][ \A p \in Procs :
          /\ ( /\ pc[p] = "k_write" /\ pc'[p] # "k_write"
                /\ ~ sloc[p].complete
                /\ sloc[p].upload_id \in DOMAIN chunk_dirs ) =>
                  /\ resp'[p] = [ kind |-> "too_large", id |-> sloc[p].upload_id ]
                  /\ pc'[p] = "idle"
                  /\ sloc[p].index \notin DOMAIN chunk_dirs'[sloc[p].upload_id]
                  /\ UNCHANGED upload_sessions
          /\ (pc[p] = "k_count" /\ pc'[p] = "idle" /\ resp'[p].kind = "received") =>
                  sloc[p].complete ]_vars

----------------------------------------------------------------------------
(* C28 *)

\* C28: a comments-disabled update of an item by a principal who neither
\* uploaded it nor is an admin is answered Forbidden, one of an id that is not
\* in the catalog NotFound, and neither changes the catalog, the indices or
\* a file; a delete by a principal who is not an admin changes none of them.
C28_UnauthorizedMutationChangesNothing ==
    [][ \A p \in Procs, id \in Ids, user \in Users :
          Accepted(p) =>
              /\ \A value \in BOOLEAN :
                    PatchCommentsDisabled(p, id, value, user) =>
                        /\ id \notin DOMAIN videos =>
                              /\ resp'[p] = [ kind |-> "notfound", id |-> id ]
                              /\ pc'[p] = "idle"
                              /\ UNCHANGED << mem, disk >>
                        /\ ( /\ id \in DOMAIN videos
                              /\ videos[id].uploaded_by # user
                              /\ user \notin Admins ) =>
                              /\ resp'[p] = [ kind |-> "forbidden", id |-> id ]
                              /\ pc'[p] = "idle"
                              /\ UNCHANGED << mem, disk >>
              /\ (user \notin Admins /\ DeleteRequest(p, id, user)) =>
                    /\ pc'[p] = "idle"
                    /\ UNCHANGED << mem, disk >> ]_vars

\* an update was answered Forbidden for an item that is in the catalog, with
\* its flag and its metadata file as its upload left them
C28_Witness ==
    \E p \in Procs :
        /\ resp[p].kind = "forbidden"
        /\ resp[p].id \in DOMAIN videos
        /\ videos[resp[p].id].uploaded_by \in Admins
        /\ videos[resp[p].id].comments_disabled
        /\ resp[p].id \in DOMAIN meta_files
        /\ meta_files[resp[p].id] = videos[resp[p].id]

----------------------------------------------------------------------------
(* C22 *)

\* the leading bytes are the container signature of the declared type
HeadMatches(format, mime) ==
    \/ mime = "video/mp4" /\ format = "ftyp"
    \/ mime = "video/webm" /\ format = "ebml"
    \/ mime = "text/plain" /\ format \in { "utf8", "utf8_head" }

----------------------------------------------------------------------------
(* C23 *)

\* the answers of an upload that was aborted
AbortKinds == { "too_large", "magic", "error" }

\* a step of the upload of p that ends it in Aborted
Aborts(p) ==
    /\ pc[p] # "idle"
    /\ loc[p].op = "upload"
    /\ pc'[p] = "idle"
    /\ resp'[p].kind \in AbortKinds

\* C23: when an upload ends in Aborted, from whatever state, its temp file and
\* the output file of the transcoder are gone and the catalog and both
\* indices are as they were before the step.
C23_AbortCleansUp ==
    [][ \A p \in Procs :
          Aborts(p) =>
              /\ p \notin temp_files'
              /\ ConvertedOf(p) \notin temp_files'
              /\ UNCHANGED mem ]_vars

----------------------------------------------------------------------------
(* C29 *)

\* The state of the upload a handler runs: 1 Received, 2 SizeChecked,
\* 3 TypeValidated, 4 Transcoded, 5 Fingerprinted, 6 DedupResolved.
StateOf(p) ==
    CASE pc[p] = "u_size" -> 1
      [] pc[p] = "u_magic" -> 2
      [] pc[p] \in { "u_transcode", "u_transcode_failed", "u_replace" } -> 3
      [] pc[p] = "u_fingerprint" -> IF loc[p].transcoded THEN 4 ELSE 3
      [] pc[p] \in { "u_exact", "u_fuzzy" } -> 5
      [] OTHER -> 6

StateOfNext(p) ==
    CASE pc'[p] = "u_size" -> 1
      [] pc'[p] = "u_magic" -> 2
      [] pc'[p] \in { "u_transcode", "u_transcode_failed", "u_replace" } -> 3
      [] pc'[p] = "u_fingerprint" -> IF loc'[p].transcoded THEN 4 ELSE 3
      [] pc'[p] \in { "u_exact", "u_fuzzy" } -> 5
      [] OTHER -> 6

----------------------------------------------------------------------------
(* C31 *)

\* the types the transcoder is for: video other than the canonical one
NonCanonicalVideo == { "video/webm" }
VideoTypes == { "video/mp4" } \cup NonCanonicalVideo

\* C31: the transcoder is started for an upload only if it was not started
\* for it before and the declared type is a video type other than video/mp4;
\* every catalog item of a video type has content type video/mp4, and every
\* owning one has the filename <id>.mp4.
C31_TranscodeOnceNonCanonicalOnly ==
    [][ /\ \A p \in Procs :
              (pc[p] = "u_transcode" /\ pc'[p] # pc[p]) =>
                  /\ loc[p].launches = 0
                  /\ loc[p].declared \in NonCanonicalVideo
                  /\ pc'[p] # "idle" => loc'[p].launches = 1
        /\ \A p \in Procs :
              (pc[p] # "u_transcode" /\ pc'[p] # "idle") =>
                  loc'[p].launches = loc[p].launches
        /\ \A k \in DOMAIN videos' :
              videos'[k].content_type \in VideoTypes =>
                  /\ videos'[k].content_type = "video/mp4"
                  /\ videos'[k].references_id = NoId =>
                        videos'[k].filename = << k, ".mp4" >> ]_vars

\* an upload declared video/webm was transcoded once and is in the catalog as
\* an owning video/mp4 item whose file <id>.mp4 is on disk
C31_Witness ==
    \E p \in Procs :
        /\ loc[p].declared = "video/webm"
        /\ loc[p].launches = 1
        /\ loc[p].meta.id \in DOMAIN videos
        /\ videos[loc[p].meta.id].content_type = "video/mp4"
        /\ videos[loc[p].meta.id].references_id = NoId
        /\ videos[loc[p].meta.id].filename = << loc[p].meta.id, ".mp4" >>
        /\ << loc[p].meta.id, ".mp4" >> \in DOMAIN media_files

----------------------------------------------------------------------------
(* C32 *)

LinkPcs == { "u_link_rm", "u_link_get", "u_link_insert", "u_link_persist" }

\* C32: every catalog item with a fuzzy digest has a video content type; an
\* upload on the fuzzy-link path, and every referencing item of the catalog,
\* has a video content type; and no referencing item of the catalog is a key
\* of the fuzzy-hash index or a value of the exact-hash index.
C32_FuzzyDigestForVideoOnly ==
    /\ \A k \in DOMAIN videos :
          /\ videos[k].tlsh_hash # NoTlsh => videos[k].content_type \in VideoTypes
          /\ videos[k].references_id # NoId =>
                /\ videos[k].content_type \in VideoTypes
                /\ k \notin DOMAIN video_tlsh
                /\ \A h \in DOMAIN video_hashes : video_hashes[h] # k
    /\ \A p \in Procs :
          pc[p] \in LinkPcs => loc[p].base_mime \in VideoTypes

\* the catalog holds an owning text item without a fuzzy digest, an owning
\* video item that is in both indices and an item that references it
C32_Witness ==
    \E t, o, k \in DOMAIN videos :
        /\ videos[t].content_type = "text/plain"
        /\ videos[t].tlsh_hash = NoTlsh
        /\ videos[t].references_id = NoId
        /\ t \notin DOMAIN video_tlsh
        /\ videos[k].references_id = o
        /\ videos[o].references_id = NoId
        /\ o \in DOMAIN video_tlsh
        /\ video_hashes[videos[o].sha256] = o

----------------------------------------------------------------------------
(* C34 *)

\* the media file an owning item was stored as
MediaFileOf(o) == { f \in DOMAIN media_files : f # NoFilename /\ f[1] = o }

\* C34: a GET of an id that is not in the catalog is answered NotFound; one of
\* an owning item is served from the item's own filename and content type;
\* one of a referencing item is served from the media file of the item it
\* references, with the content type of that item when it is in the catalog.
C34_ResolutionFollowsOneHop ==
    \A id \in Ids :
        LET r == stream_file(videos, id) IN
        /\ id \notin DOMAIN videos => r.kind = "notfound"
        /\ id \in DOMAIN videos =>
              /\ r.kind = "ok"
              /\ videos[id].references_id = NoId =>
                    /\ r.filename = videos[id].filename
                    /\ r.content_type = videos[id].content_type
              /\ videos[id].references_id # NoId =>
                    /\ r.filename \in MediaFileOf(videos[id].references_id)
                    /\ videos[id].references_id \in DOMAIN videos =>
                          /\ r.filename = videos[videos[id].references_id].filename
                          /\ r.content_type =
                                videos[videos[id].references_id].content_type

\* the same, for the referencing items that were committed with a filename
C34_ResolutionOfNamedItems ==
    \A id \in DOMAIN videos :
        (videos[id].references_id # NoId /\ videos[id].filename # NoFilename) =>
            stream_file(videos, id).filename \in MediaFileOf(videos[id].references_id)

----------------------------------------------------------------------------
(* C35 *)

\* C35: every referencing item of the catalog has a filename that is not
\* empty and is the filename of the item it references when that item is in
\* the catalog, and an upload that has found its original through the
\* fuzzy-hash index commits its link with the filename of that original.
C35_ReferrersCarryTheOriginalsFilename ==
    \A k \in DOMAIN videos :
        videos[k].references_id # NoId =>
            /\ videos[k].filename # NoFilename
            /\ videos[k].filename[1] = videos[k].references_id
            /\ videos[k].references_id \in DOMAIN videos =>
                  videos[k].filename = videos[videos[k].references_id].filename

----------------------------------------------------------------------------
(* C36 *)

\* every owning item of a catalog has its media file on disk
OwnersHaveTheirFile(catalog, files) ==
    \A k \in DOMAIN catalog :
        catalog[k].references_id = NoId => catalog[k].filename \in DOMAIN files

\* every referencing item of a catalog resolves to a media file on disk
ReferrersResolve(catalog, files) ==
    \A k \in DOMAIN catalog :
        catalog[k].references_id # NoId =>
            stream_file(catalog, k).filename \in DOMAIN files

\* C36: when the process stops inside a commit or a delete, every owning item
\* of the catalog rebuilt at the restart has its media file on disk and
\* every referencing item of it resolves to a media file on disk.
C36_RecoveredItemsHaveTheirFile ==
    [][ Crash => /\ OwnersHaveTheirFile(videos', media_files')
                 /\ ReferrersResolve(videos', media_files') ]_vars

\* the owning items' half of it
C36_RecoveredOwnersHaveTheirFile ==
    [][ Crash => OwnersHaveTheirFile(videos', media_files') ]_vars

----------------------------------------------------------------------------
(* C37 *)

\* where a complete call is between obtaining the session and the pipeline
CompletePcs == { "c_create", "c_loop", "c_process" }

Assembling(p, id) == pc[p] \in CompletePcs /\ sloc[p].upload_id = id

----------------------------------------------------------------------------
(* C33 *)

\* the upload of p waits for the transcoder or for the fingerprint task
Suspended(p) == pc[p] \in { "u_transcode", "u_fingerprint" }

\* no handler other than p and q holds a guard on the key
OthersLeaveFree(p, q, key) == \A r \in Procs \ { p, q } : key \notin guards(r)

----------------------------------------------------------------------------
(* C40 *)

\* C40: no handler holds a map guard between two of its steps, so an insert
\* into or a remove from the exact-hash index that a handler has reached is
\* never held up by another handler.
C40_NoGuardAcrossAwait ==
    \A p \in Procs :
        /\ guards(p) = {}
        /\ pc[p] = "u_new_hash" => ENABLED UploadNewHashInsert(p)
        /\ pc[p] = "d_hash" => ENABLED DeleteHash(p)

\* the part of it on the handlers being held up
C40_IndexStepsAreNeverHeldUp ==
    \A p \in Procs :
        /\ pc[p] = "u_new_hash" => ENABLED UploadNewHashInsert(p)
        /\ pc[p] = "d_hash" => ENABLED DeleteHash(p)

----------------------------------------------------------------------------
(* C38 *)

\* C38: when the validator has read a media upload declared text/plain, the upload
\* passes if its bytes are at least four and are valid UTF-8 as a whole, and
\* is rejected as a mismatch with its temp file deleted if they are not valid
\* UTF-8.
C38_TextValidationIsWholeBufferUtf8 ==
    [][ \A p \in Procs :
          ( /\ pc[p] = "u_magic"
            /\ pc'[p] # pc[p]
            /\ faults' = faults
            /\ loc[p].via = "media"
            /\ loc[p].declared = "text/plain" ) =>
              LET bytes == BytesOfFormat(loc[p].format) IN
              /\ (Len(bytes) >= MinMagicLen /\ from_utf8_is_ok(bytes)) =>
                    pc'[p] = "u_fingerprint"
              /\ ~ from_utf8_is_ok(bytes) =>
                    /\ resp'[p].kind = "magic"
                    /\ pc'[p] = "idle"
                    /\ p \notin temp_files' ]_vars

----------------------------------------------------------------------------
(* C39 *)

\* the step is one of handler p deleting item id, which references another
DeletesReferrer(p, id) ==
    /\ pc'[p] # pc[p]
    /\ \/ /\ pc[p] = "idle" /\ pc'[p] = "d_meta"
          /\ loc'[p].meta.id = id
          /\ loc'[p].meta.references_id # NoId
       \/ /\ pc[p] \in { "d_meta", "d_scan", "d_hash", "d_tlsh", "d_file" }
          /\ loc[p].meta.id = id
          /\ loc[p].meta.references_id # NoId

\* C39: every step of the delete of a referencing item leaves the media
\* files, the exact-hash index and the fuzzy index as they are, and changes
\* the catalog and the metadata files at most by removing that item's own
\* entry; the item it references and the other items that reference it stay.
C39_DeletingAReferrerTouchesOnlyIt ==
    [][ \A p \in Procs : \A id \in Ids :
          DeletesReferrer(p, id) =>
              /\ media_files' = media_files
              /\ video_hashes' = video_hashes
              /\ video_tlsh' = video_tlsh
              /\ videos' \in { videos, Drop(videos, id) }
              /\ meta_files' \in { meta_files, Drop(meta_files, id) }
              /\ pc'[p] \in { "d_meta", "d_scan", "idle" } ]_vars

\* the delete of a referencing item has removed its catalog entry and its
\* metadata file while the item it references is in the catalog with its file
C39_Witness ==
    \E p \in Procs :
        /\ pc[p] = "d_scan"
        /\ loc[p].meta.references_id \in DOMAIN videos
        /\ loc[p].meta.id \notin DOMAIN videos
        /\ loc[p].meta.id \notin DOMAIN meta_files
        /\ loc[p].meta.filename # << >>
        /\ loc[p].meta.filename \in DOMAIN media_files
        /\ videos[loc[p].meta.references_id].filename = loc[p].meta.filename

====
